---- MODULE Spec2Model ----
(***************************************************************************)
(* Verification model of the biomarker knowledge-graph build pipeline of   *)
(* kabirspatel/neural-network-search (src/backend/*.py).                   *)
(*                                                                         *)
(* The graph store (Neo4j) is modelled as sets of node and relationship    *)
(* records with store-assigned identities, so that MERGE (match or create) *)
(* and MATCH (match only) are different operations and a parallel edge is  *)
(* representable.  CSV files are sequences of rows whose cells are text.   *)
(***************************************************************************)
EXTENDS Integers, Sequences, FiniteSets, TLC

VARIABLES
    bnodes,     \* (:Biomarker) nodes of the store
    dnodes,     \* (:Disease) nodes of the store
    rels,       \* [:BIOMARKER_ASSOCIATED_WITH_DISEASE] relationships
    nextId,     \* next identity the store hands out
    lastObs,    \* history: per relationship, the observations imported on it
    runs,       \* number of importer runs so far
    devices,    \* (:Device) nodes of the store
    mnodes,     \* names of the (:DetectionMethod) nodes of the store
    mrels,      \* relationships that end on a DetectionMethod node
    srels,      \* relationships to Specimen nodes, and Device-[:INTENDED_FOR]->Disease
    call,       \* the last query of the app on the store, and its answer
    report,     \* what the loaders of the last run read, kept and wrote to their output
    edgesCsv,   \* data/biomarker_disease_edges_pubmed.csv
    markerdb,   \* data/markerdb_metabolic_export.csv
    inputDir,   \* data/biomarker_disease/*.csv, in sorted() order of their names
    master,     \* data/master_biomarker_disease_edges.csv
    putOrder,   \* history: the input files in the order they were created
    script,     \* the enrichment script of this run
    idx,        \* position of the run in its list of pairs
    outRows,    \* rows the run has collected
    status,     \* "running", "aborted", "written" (CSV on disk), "imported"
    warned,     \* pairs for which a warning was logged
    failed,     \* history: pairs whose lookup failed
    raisedAt,   \* history: pairs whose count function raised to its caller
    events,     \* history: "request" and "sleep" in the order they happened
    diseasesCsv,  \* data/diseases.csv, the local disease table
    ontologyCsv,  \* data/disease_ontology.csv, the DOID table
    enrichedCsv,  \* data/diseases_enriched.csv
    pairsCsv,     \* data/enriched_biomarker_diseases.csv, the candidate edges
    edgesOut,     \* data/biomarker_disease_edges.csv
    strong_val,   \* a cell of the matrix column
    weak_val,     \* the cell of the aggregated weak column of the same row
    combined,     \* the cell main() writes to biomarker_matrix_full.csv
    lastOp,     \* history: the script that ran last
    pick,       \* build_biomarker_matrix.py: the columns of a table and the two picked
    batch,      \* two concurrent runs of fetch_markerdb_metabolic_edges.py: where each is
    client,     \* neo4j_client.py: _driver, the drivers constructed, the calls of get_driver
    entry,      \* the last run of a script that connects on its own, and what it did
    observed,   \* history: the (biomarker, disease, query, count) rows the auto importer was given
    export,     \* export_weak_biomarkers.py: skip, the rows written to the CSV, loop ended
    cancer      \* add_is_cancer_like_to_enriched.py: backup file, first table, runs

graphVars == <<bnodes, dnodes, rels, nextId, lastObs, runs, devices, mnodes, mrels,
               srels, call, report>>
fetchVars == <<edgesCsv, markerdb>>
mergeVars == <<inputDir, master, putOrder>>
pubmedVars == <<script, idx, outRows, status, warned, failed, raisedAt, events>>
resolveVars == <<diseasesCsv, ontologyCsv, enrichedCsv, pairsCsv, edgesOut>>
combineVars == <<strong_val, weak_val, combined>>
scriptVars == <<pick, batch, client, entry, observed, export, cancer>>
nonGraphVars == <<fetchVars, mergeVars, pubmedVars, resolveVars, combineVars, scriptVars, lastOp>>
nonFetchVars == <<graphVars, mergeVars, pubmedVars, resolveVars, combineVars, scriptVars>>
nonMergeVars == <<graphVars, fetchVars, pubmedVars, resolveVars, combineVars, scriptVars>>

vars == <<bnodes, dnodes, rels, nextId, lastObs, runs, devices, mnodes, mrels,
          srels, call, report,
          edgesCsv, markerdb,
          inputDir, master, putOrder, script, idx, outRows, status, warned,
          failed, raisedAt, events, diseasesCsv, ontologyCsv, enrichedCsv,
          pairsCsv, edgesOut, strong_val, weak_val, combined, lastOp,
          pick, batch, client, entry, observed, export, cancer>>

-----------------------------------------------------------------------------
(* Bounds of the model.                                                    *)

MaxBatch == 1      \* rows in one imported CSV
MaxRows  == 2      \* rows of a table a build step reads
MaxCols  == 3      \* columns of a table build_biomarker_matrix.py reads
MaxCalls == 3      \* calls of get_driver in one process
PageSize == 2      \* BATCH_SIZE of export_weak_biomarkers.py, scaled to the model
MaxCount == 1      \* largest co-mention count a lookup returns
MaxRuns  == 2      \* importer runs in one behaviour

-----------------------------------------------------------------------------
(* Values.                                                                 *)

NULL == "NULL"     \* Python None / Cypher null / absent property

\* int(s): the integer a decimal text denotes, or ValueError.
ValueError == -1
ParseInt(s) ==
    IF \E n \in 0..(2 * MaxCount + 2) : ToString(n) = s
    THEN CHOOSE n \in 0..(2 * MaxCount + 2) : ToString(n) = s
    ELSE ValueError

CountCells == {ToString(n) : n \in 0..MaxCount}

\* Sequences over S of length 0..n.
SeqsUpTo(S, n) == UNION {[1..k -> S] : k \in 0..n}

-----------------------------------------------------------------------------
(* The store.                                                              *)

Graph == [b |-> bnodes, d |-> dnodes, r |-> rels, next |-> nextId, obs |-> lastObs]

\* History of the observations imported on one relationship.
Observe(obs, rid, cnt) ==
    IF rid \in DOMAIN obs
    THEN [obs EXCEPT ![rid] = [count |-> cnt, times |-> @.times + 1, total |-> @.total + cnt]]
    ELSE obs @@ (rid :> [count |-> cnt, times |-> 1, total |-> cnt])

RECURSIVE ObserveAll(_, _, _)
ObserveAll(obs, rids, cnt) ==
    IF rids = {} THEN obs
    ELSE LET rid == CHOOSE x \in rids : TRUE
         IN ObserveAll(Observe(obs, rid, cnt), rids \ {rid}, cnt)

-----------------------------------------------------------------------------
(* import_biomarker_disease_edges_auto.py                                  *)

\* The integers an importer stores in is_cancer_like are written as their
\* decimal text, the booleans as "true" and "false".
AutoCsvRows ==
    [biomarker_name : {"b1"}, biomarker_category : {"protein"},
     disease_name : {"n1", "n2"}, doid : {"D1"}, disease_category : {"renal"},
     is_cancer_like : {"", "1"}, specimen_type : {"urine"},
     pubmed_query : {"q1", "q2"}, pubmed_count : CountCells]

\* load_edges: keep the rows whose pubmed_count parses to a positive integer.
load_edges(csv) ==
    LET count(row) == IF ParseInt(row.pubmed_count) = ValueError THEN 0
                      ELSE ParseInt(row.pubmed_count)
    IN SelectSeq(csv, LAMBDA row : ~(count(row) <= 0))

\* MERGE (b:Biomarker {name: $biomarker_name}) ON CREATE SET b.category
auto_merge_biomarker(g, row) ==
    IF \E n \in g.b : n.name = row.biomarker_name THEN g
    ELSE [g EXCEPT !.b = @ \cup {[nid |-> g.next, name |-> row.biomarker_name,
                                  biomarker_id |-> NULL,
                                  category |-> row.biomarker_category]},
                   !.next = @ + 1]

\* MERGE (d:Disease {name: $disease_name}) ON CREATE SET d.doid, d.category,
\* d.is_cancer_like
auto_merge_disease(g, row) ==
    IF \E n \in g.d : n.name = row.disease_name THEN g
    ELSE [g EXCEPT !.d = @ \cup {[nid |-> g.next, name |-> row.disease_name,
                                  doid |-> row.doid,
                                  category |-> row.disease_category,
                                  is_cancer_like |->
                                      IF row.is_cancer_like \in {NULL, ""} THEN "0"
                                      ELSE row.is_cancer_like]},
                   !.next = @ + 1]

\* A variant that creates the relationship without looking for an existing one.
auto_merge_rel_create(g, bid, did, row) ==
    [g EXCEPT !.r = @ \cup {[rid |-> g.next, b |-> bid, d |-> did,
                             specimen_type |-> row.specimen_type,
                             pubmed_query |-> row.pubmed_query,
                             pubmed_count |-> ParseInt(row.pubmed_count),
                             is_cancer_like |-> NULL]},
              !.next = @ + 1,
              !.obs = Observe(@, g.next, ParseInt(row.pubmed_count))]

\* A variant whose ON MATCH adds the new count to the stored one.
auto_merge_rel_sum(g, bid, did, row) ==
    LET m   == {r \in g.r : r.b = bid /\ r.d = did}
        cnt == ParseInt(row.pubmed_count)
    IN IF m = {} THEN auto_merge_rel_create(g, bid, did, row)
       ELSE [g EXCEPT !.r = (g.r \ m) \cup
                            {[r EXCEPT !.pubmed_count = @ + cnt] : r \in m},
                      !.obs = ObserveAll(@, {r.rid : r \in m}, cnt)]

\* MERGE (b)-[r:BIOMARKER_ASSOCIATED_WITH_DISEASE]->(d)
\*   ON CREATE SET r.specimen_type, r.pubmed_query, r.pubmed_count
\*   ON MATCH  SET r.pubmed_count
auto_merge_rel(g, bid, did, row) ==
    LET m   == {r \in g.r : r.b = bid /\ r.d = did}
        cnt == ParseInt(row.pubmed_count)
    IN IF m = {}
       THEN [g EXCEPT !.r = @ \cup {[rid |-> g.next, b |-> bid, d |-> did,
                                     specimen_type |-> row.specimen_type,
                                     pubmed_query |-> row.pubmed_query,
                                     pubmed_count |-> cnt,
                                     is_cancer_like |-> NULL]},
                      !.next = @ + 1,
                      !.obs = Observe(@, g.next, cnt)]
       ELSE [g EXCEPT !.r = (g.r \ m) \cup
                            {[r EXCEPT !.pubmed_count = cnt] : r \in m},
                      !.obs = ObserveAll(@, {r.rid : r \in m}, cnt)]

RECURSIVE auto_merge_pairs(_, _, _)
auto_merge_pairs(g, pairs, row) ==
    IF pairs = {} THEN g
    ELSE LET p == CHOOSE x \in pairs : TRUE
         IN auto_merge_pairs(auto_merge_rel(g, p[1], p[2], row), pairs \ {p}, row)

\* One session.run of the importer's statement.
auto_run_row(g, row) ==
    LET g1 == auto_merge_biomarker(g, row)
        g2 == auto_merge_disease(g1, row)
        bs == {n.nid : n \in {x \in g2.b : x.name = row.biomarker_name}}
        ds == {n.nid : n \in {x \in g2.d : x.name = row.disease_name}}
    IN auto_merge_pairs(g2, bs \X ds, row)

\* import_edges(driver, rows): one statement per row, in order.
RECURSIVE import_edges_auto(_, _)
import_edges_auto(g, rows) ==
    IF rows = <<>> THEN g
    ELSE import_edges_auto(auto_run_row(g, Head(rows)), Tail(rows))

\* main of import_biomarker_disease_edges_auto.py
auto_main(g, csv) == import_edges_auto(g, load_edges(csv))

SetGraph(g) ==
    /\ bnodes' = g.b
    /\ dnodes' = g.d
    /\ rels' = g.r
    /\ nextId' = g.next
    /\ lastObs' = g.obs
    /\ UNCHANGED <<devices, mnodes, mrels, srels, call, report>>

ImportAuto ==
    /\ runs < MaxRuns
    /\ \E csv \in SeqsUpTo(AutoCsvRows, MaxBatch) :
          /\ csv # <<>>
          /\ SetGraph(auto_main(Graph, csv))
    /\ runs' = runs + 1
    /\ UNCHANGED nonGraphVars

\* A run of the importer on a CSV of one pair with a query and a count from
\* PubMed, together with the record of what the run was given.
ImportAutoObserved ==
    /\ runs < MaxRuns
    /\ \E csv \in SeqsUpTo([biomarker_name : {"b1"}, biomarker_category : {"protein"},
                             disease_name : {"n1"}, doid : {"D1"},
                             disease_category : {"renal"}, is_cancer_like : {""},
                             specimen_type : {"urine"}, pubmed_query : {"q1", "q2"},
                             pubmed_count : {"0", "1", "2"}], MaxRows) :
          /\ csv # <<>>
          /\ SetGraph(auto_main(Graph, csv))
          /\ observed' = observed \cup
                {<<load_edges(csv)[i].biomarker_name, load_edges(csv)[i].disease_name,
                   load_edges(csv)[i].pubmed_query,
                   ParseInt(load_edges(csv)[i].pubmed_count)>> :
                      i \in DOMAIN load_edges(csv)}
    /\ runs' = runs + 1
    /\ UNCHANGED <<fetchVars, mergeVars, pubmedVars, resolveVars, combineVars, lastOp,
                   pick, batch, client, entry, export, cancer>>

-----------------------------------------------------------------------------
(* import_biomarker_disease_edges.py                                       *)

EdgeCsvRows ==
    [biomarker_id : {"B1"}, doid : {"D1", "D2"}, pubmed_query : {"", "q3"},
     pubmed_count : CountCells, is_cancer_like : {"", "1"}]

\* _clean_int(value, default=0)
clean_int(value, default) ==
    IF value = NULL THEN default
    ELSE IF value = "" \/ value = "nan" THEN default
    ELSE IF ParseInt(value) = ValueError THEN default
    ELSE ParseInt(value)

\* read_edges: drop rows without biomarker_id or doid, convert the cells.
RECURSIVE read_edges(_)
read_edges(csv) ==
    IF csv = <<>> THEN <<>>
    ELSE LET row == Head(csv)
         IN IF row.biomarker_id = "" \/ row.doid = "" THEN read_edges(Tail(csv))
            ELSE <<[biomarker_id |-> row.biomarker_id,
                    doid |-> row.doid,
                    pubmed_query |-> IF row.pubmed_query = "" THEN NULL
                                     ELSE row.pubmed_query,
                    pubmed_count |-> clean_int(row.pubmed_count, 0),
                    is_cancer_like |-> IF row.is_cancer_like \in {"0", "1"}
                                       THEN row.is_cancer_like ELSE NULL]>>
                 \o read_edges(Tail(csv))

\* MERGE (b)-[r:BIOMARKER_ASSOCIATED_WITH_DISEASE]->(d)
\* SET r.pubmed_query = row.pubmed_query, r.pubmed_count = row.pubmed_count,
\*     r.is_cancer_like = coalesce(row.is_cancer_like, r.is_cancer_like)
edge_merge_rel(g, bid, did, edge) ==
    LET m == {r \in g.r : r.b = bid /\ r.d = did}
    IN IF m = {}
       THEN [g EXCEPT !.r = @ \cup {[rid |-> g.next, b |-> bid, d |-> did,
                                     specimen_type |-> NULL,
                                     pubmed_query |-> edge.pubmed_query,
                                     pubmed_count |-> edge.pubmed_count,
                                     is_cancer_like |-> edge.is_cancer_like]},
                      !.next = @ + 1,
                      !.obs = Observe(@, g.next, edge.pubmed_count)]
       ELSE [g EXCEPT !.r = (g.r \ m) \cup
                            {[r EXCEPT !.pubmed_query = edge.pubmed_query,
                                       !.pubmed_count = edge.pubmed_count,
                                       !.is_cancer_like =
                                           IF edge.is_cancer_like # NULL
                                           THEN edge.is_cancer_like ELSE @]
                             : r \in m},
                      !.obs = ObserveAll(@, {r.rid : r \in m}, edge.pubmed_count)]

RECURSIVE edge_merge_pairs(_, _, _)
edge_merge_pairs(g, pairs, edge) ==
    IF pairs = {} THEN g
    ELSE LET p == CHOOSE x \in pairs : TRUE
         IN edge_merge_pairs(edge_merge_rel(g, p[1], p[2], edge), pairs \ {p}, edge)

\* MATCH (b:Biomarker {biomarker_id: row.biomarker_id})
\* MATCH (d:Disease {doid: row.doid})
edge_run_row(g, edge) ==
    LET bs == {n.nid : n \in {x \in g.b : x.biomarker_id = edge.biomarker_id}}
        ds == {n.nid : n \in {x \in g.d : x.doid = edge.doid}}
    IN edge_merge_pairs(g, bs \X ds, edge)

\* import_edges(edges): UNWIND $rows AS row, in order.
RECURSIVE import_edges(_, _)
import_edges(g, edges) ==
    IF edges = <<>> THEN g
    ELSE import_edges(edge_run_row(g, Head(edges)), Tail(edges))

\* main of import_biomarker_disease_edges.py
edges_main(g, csv) == import_edges(g, read_edges(csv))

ImportEdges ==
    /\ runs < MaxRuns
    /\ \E csv \in SeqsUpTo(EdgeCsvRows, MaxBatch) :
          /\ csv # <<>>
          /\ SetGraph(edges_main(Graph, csv))
    /\ runs' = runs + 1
    /\ UNCHANGED nonGraphVars

-----------------------------------------------------------------------------
(* import_enriched_diseases.py                                             *)

EnrichedCsvRows ==
    [name : {"n1", "n2"}, doid : {"D1", ""}, is_cancer_like : {"1"}]

\* read_enriched_diseases: "" becomes None, rows without a name are skipped,
\* is_cancer_like "0"/"1" becomes a bool.
RECURSIVE read_enriched_diseases(_)
read_enriched_diseases(csv) ==
    IF csv = <<>> THEN <<>>
    ELSE LET r == Head(csv)
             clean == [k \in DOMAIN r |-> IF r[k] # "" THEN r[k] ELSE NULL]
         IN IF clean.name = NULL THEN read_enriched_diseases(Tail(csv))
            ELSE <<[clean EXCEPT !.is_cancer_like =
                        IF @ \in {"0", "1"}
                        THEN (IF @ = "1" THEN "true" ELSE "false") ELSE @]>>
                 \o read_enriched_diseases(Tail(csv))

\* MERGE (d:Disease {name: row.name}) SET d += row
merge_enriched_row(g, row) ==
    LET m == {n \in g.d : n.name = row.name}
    IN IF m = {}
       THEN [g EXCEPT !.d = @ \cup {[nid |-> g.next, name |-> row.name,
                                     doid |-> row.doid, category |-> NULL,
                                     is_cancer_like |-> row.is_cancer_like]},
                      !.next = @ + 1]
       ELSE [g EXCEPT !.d = (g.d \ m) \cup
                            {[n EXCEPT !.doid = row.doid,
                                       !.is_cancer_like = row.is_cancer_like]
                             : n \in m}]

RECURSIVE import_enriched_diseases(_, _)
import_enriched_diseases(g, rows) ==
    IF rows = <<>> THEN g
    ELSE import_enriched_diseases(merge_enriched_row(g, Head(rows)), Tail(rows))

ImportEnrichedDiseases ==
    /\ runs < MaxRuns
    /\ \E csv \in SeqsUpTo(EnrichedCsvRows, MaxBatch) :
          /\ csv # <<>>
          /\ SetGraph(import_enriched_diseases(Graph, read_enriched_diseases(csv)))
    /\ runs' = runs + 1
    /\ UNCHANGED nonGraphVars

-----------------------------------------------------------------------------
(* Text.  A text whose characters matter is a sequence of one-character    *)
(* strings, so that split, strip, sort and join are computed, not assumed. *)

\* Code point order of the characters used.
Rank(c) ==
    CASE c = " " -> 32
      [] c = "1" -> 49
      [] c = "2" -> 50
      [] c = ";" -> 59
      [] c = "A" -> 65
      [] c = "X" -> 88
      [] c = "Y" -> 89
      [] c = "a" -> 97
      [] c = "n" -> 110
      [] c = "x" -> 120
      [] c = "y" -> 121

\* a < b for Python str.
RECURSIVE StrLess(_, _)
StrLess(a, b) ==
    IF b = <<>> THEN FALSE
    ELSE IF a = <<>> THEN TRUE
    ELSE IF Head(a) # Head(b) THEN Rank(Head(a)) < Rank(Head(b))
    ELSE StrLess(Tail(a), Tail(b))

\* str.strip()
RECURSIVE LStrip(_)
LStrip(s) == IF s # <<>> /\ Head(s) = " " THEN LStrip(Tail(s)) ELSE s

RECURSIVE RStrip(_)
RStrip(s) ==
    IF s # <<>> /\ s[Len(s)] = " " THEN RStrip(SubSeq(s, 1, Len(s) - 1)) ELSE s

Strip(s) == RStrip(LStrip(s))

\* str.split(sep) for a one-character separator: always at least one piece.
RECURSIVE Split(_, _)
Split(s, sep) ==
    IF \A i \in 1..Len(s) : s[i] # sep THEN <<s>>
    ELSE LET i == CHOOSE k \in 1..Len(s) :
                      s[k] = sep /\ \A j \in 1..(k - 1) : s[j] # sep
         IN <<SubSeq(s, 1, i - 1)>> \o Split(SubSeq(s, i + 1, Len(s)), sep)

\* sep.join(items)
RECURSIVE Join(_, _)
Join(items, sep) ==
    IF items = <<>> THEN <<>>
    ELSE IF Len(items) = 1 THEN items[1]
    ELSE items[1] \o sep \o Join(Tail(items), sep)

\* sorted(set): the elements of S in ascending order.
RECURSIVE Sorted(_)
Sorted(S) ==
    IF S = {} THEN <<>>
    ELSE LET m == CHOOSE x \in S : \A y \in S \ {x} : StrLess(x, y)
         IN <<m>> \o Sorted(S \ {m})

Range(f) == {f[i] : i \in DOMAIN f}

-----------------------------------------------------------------------------
(* fetch_markerdb_metabolic_edges.py on the edges CSV.  A CSV file is a    *)
(* header and rows of cells; a reader finds a cell by the position of its  *)
(* column in the header, a DictWriter writes the cells in the order of its *)
(* own fieldnames.                                                         *)

\* fieldnames of append_rows
AppendFieldnames ==
    <<"biomarker_id", "doid", "pubmed_query", "pubmed_count", "is_cancer_like">>

\* columns of biomarker_disease_edges.csv, kept by the PubMed count enrichers
EdgesColumns ==
    <<"biomarker_id", "biomarker_name", "disease_name", "doid",
      "is_cancer_like", "pubmed_query", "pubmed_count">>

NoFile == [exists |-> FALSE, header |-> <<>>, rows |-> <<>>]

ColIndex(header, col) == CHOOSE i \in 1..Len(header) : header[i] = col

\* pandas.read_csv: a missing or empty cell is NaN; str(NaN) is "nan".
pd_str(header, r, col) ==
    LET i == ColIndex(header, col)
        cell == IF i <= Len(r) THEN r[i] ELSE ""
    IN IF cell \in {"", "nan"} THEN "nan" ELSE cell

\* csv.DictWriter.writerow: the values in fieldnames order; None is written "".
writerow(fieldnames, r) ==
    [i \in 1..Len(fieldnames) |->
        IF r[fieldnames[i]] = NULL THEN "" ELSE r[fieldnames[i]]]

MarkerdbRows ==
    [bm : {"M1"}, doid : {"D1", "D2"}, pmids : {<<>>, <<"1", ";", "2">>}]

\* load_existing_pairs()
load_existing_pairs(file) ==
    IF ~file.exists THEN {}
    ELSE {p \in {<<pd_str(file.header, file.rows[i], "biomarker_id"),
                   pd_str(file.header, file.rows[i], "doid")>> : i \in DOMAIN file.rows}
            : p[1] # "" /\ p[2] # ""}

\* the count build_new_rows takes from the "PMIDs" cell
pmid_count(cell) ==
    LET pmids_raw == IF cell = <<>> THEN <<"n", "a", "n">> ELSE Strip(cell)
    IN IF pmids_raw = <<>> THEN 0
       ELSE Len(SelectSeq(Split(pmids_raw, ";"), LAMBDA p : Strip(p) # <<>>))

\* build_new_rows(existing_pairs): existing_pairs is not extended in the loop.
RECURSIVE build_new_rows(_, _)
build_new_rows(existing_pairs, db) ==
    IF db = <<>> THEN <<>>
    ELSE LET row == Head(db)
             biomarker_id == IF row.bm \in {"", "nan"} THEN "nan" ELSE row.bm
             doid == IF row.doid \in {"", "nan"} THEN "nan" ELSE row.doid
         IN IF biomarker_id = "" \/ doid = "" \/ <<biomarker_id, doid>> \in existing_pairs
            THEN build_new_rows(existing_pairs, Tail(db))
            ELSE <<[biomarker_id |-> biomarker_id, doid |-> doid,
                    pubmed_query |-> NULL,
                    pubmed_count |-> ToString(pmid_count(row.pmids)),
                    is_cancer_like |-> "0"]>>
                 \o build_new_rows(existing_pairs, Tail(db))

\* append_rows(rows): the header is written only when the file is new.
append_rows(file, rows) ==
    IF rows = <<>> THEN file
    ELSE [exists |-> TRUE,
          header |-> IF file.exists THEN file.header ELSE AppendFieldnames,
          rows |-> file.rows \o
                   [i \in DOMAIN rows |-> writerow(AppendFieldnames, rows[i])]]

\* main of fetch_markerdb_metabolic_edges.py
fetch_main(file, db) == append_rows(file, build_new_rows(load_existing_pairs(file), db))

RunFetchMarkerdb ==
    /\ Len(edgesCsv.rows) <= MaxRows * MaxRuns
    /\ edgesCsv' = fetch_main(edgesCsv, markerdb)
    /\ lastOp' = "fetch"
    /\ UNCHANGED <<markerdb, nonFetchVars>>

\* The PubMed count enrichers (enrich_pubmed_counts_on_edges*.py) write the
\* edges CSV with the columns of their input, biomarker_disease_edges.csv.
PubmedEdgeRows ==
    [biomarker_id : {"M1"}, biomarker_name : {"b1"}, disease_name : {"n1"},
     doid : {"D1", "D2"}, is_cancer_like : {"0"}, pubmed_query : {"q1"},
     pubmed_count : CountCells]

WriteEdgesPubmed ==
    /\ lastOp = "none"
    /\ \E rows \in SeqsUpTo(PubmedEdgeRows, MaxRows) :
          /\ rows # <<>>
          /\ edgesCsv' = [exists |-> TRUE, header |-> EdgesColumns,
                          rows |-> [i \in DOMAIN rows |-> writerow(EdgesColumns, rows[i])]]
    /\ lastOp' = "write"
    /\ UNCHANGED <<markerdb, nonFetchVars>>

InitFetch ==
    /\ edgesCsv = NoFile
    /\ markerdb \in SeqsUpTo(MarkerdbRows, MaxRows)
    /\ lastOp = "none"

InitFetchIdle ==
    /\ edgesCsv = NoFile
    /\ markerdb = <<>>

NextFetch == RunFetchMarkerdb \/ WriteEdgesPubmed

-----------------------------------------------------------------------------
(* merge_biomarker_disease_curated.py.  Of the universal schema (COLUMNS)  *)
(* the rows carry the key columns and the evidence columns; the other      *)
(* columns are copied the same way.                                        *)

\* sorted(INPUT_DIR.glob("*.csv")): the names in ascending order.
InputFileNames == <<"00_pubmed_auto.csv", "01_cancer_curated.csv">>

\* the names find_curated_files of merge_biomarker_disease_csvs.py takes for
\* curated: "*_curated.csv"
IsCuratedName(n) == n = "01_cancer_curated.csv"

InputRows ==
    [biomarker_name : {"b1"}, disease_name : {"n1", "n2"}, specimen_type : {"urine"},
     evidence_source : {"PubMed"}, strength : {"strong", "moderate", "weak"}]

key(row) == <<row.biomarker_name, row.disease_name, row.specimen_type>>

\* the loop body of main over the rows of the files read so far
RECURSIVE merge_rows(_, _, _)
merge_rows(todo, seen, rows) ==
    IF todo = <<>> THEN rows
    ELSE LET row == Head(todo)
         IN IF key(row) \in seen THEN merge_rows(Tail(todo), seen, rows)
            ELSE merge_rows(Tail(todo), seen \cup {key(row)}, Append(rows, row))

\* the rows of the existing files, file after file in sorted() order
RECURSIVE read_files(_, _)
read_files(dir, i) ==
    IF i > Len(dir) THEN <<>>
    ELSE (IF dir[i].exists THEN dir[i].rows ELSE <<>>) \o read_files(dir, i + 1)

\* main of merge_biomarker_disease_curated.py: the master file is rewritten.
curated_main(dir) ==
    [exists |-> TRUE, header |-> <<>>,
     rows |-> merge_rows(read_files(dir, 1), {}, <<>>)]

RunMergeCurated ==
    /\ master' = curated_main(inputDir)
    /\ lastOp' = "merge"
    /\ UNCHANGED <<inputDir, putOrder, nonMergeVars>>

\* A curator or an upstream script creates one of the input files.
PutInputFile ==
    /\ \E i \in DOMAIN inputDir :
          /\ ~inputDir[i].exists
          /\ \E rows \in SeqsUpTo(InputRows, MaxRows) :
                /\ rows # <<>>
                /\ inputDir' = [inputDir EXCEPT ![i] =
                                   [exists |-> TRUE, header |-> <<>>, rows |-> rows]]
          /\ putOrder' = Append(putOrder, i)
    /\ lastOp' = "put"
    /\ UNCHANGED <<master, nonMergeVars>>

InitMerge ==
    /\ inputDir = [i \in DOMAIN InputFileNames |-> NoFile]
    /\ master = NoFile
    /\ putOrder = <<>>

NextMerge == RunMergeCurated \/ PutInputFile

-----------------------------------------------------------------------------
(* The PubMed enrichment scripts.  A lookup is answered by the network:    *)
(* a 200 response with a count, or one of the failures.                    *)

Outcomes ==
    {[kind |-> "ok", count |-> n] : n \in 0..MaxCount} \cup
    {[kind |-> k, count |-> 0] : k \in {"send_error", "timeout", "http_error", "bad_body"}}

Returned(n, w, sl) == [raised |-> FALSE, count |-> n, warned |-> w, slept |-> sl]
Raised == [raised |-> TRUE, count |-> 0, warned |-> FALSE, slept |-> FALSE]

\* enrich_biomarkers_pubmed.py: the whole request is inside try/except.
esearch_count(o) ==
    IF o.kind = "ok" THEN Returned(o.count, FALSE, FALSE)
    ELSE Returned(0, TRUE, FALSE)

\* enrich_biomarkers_pubmed_fixed.py: every failure is caught and logged;
\* the delay is taken on the success path only.
query_pubmed_count_fixed(o) ==
    IF o.kind \in {"send_error", "timeout"} THEN Returned(0, TRUE, FALSE)
    ELSE IF o.kind = "http_error" THEN Returned(0, TRUE, FALSE)
    ELSE IF o.kind = "bad_body" THEN Returned(0, TRUE, FALSE)
    ELSE Returned(o.count, FALSE, TRUE)

\* build_pubmed_edges_from_lists.py: urlopen is not guarded; a body without
\* <Count> gives 0.
query_pubmed_count(o) ==
    IF o.kind \in {"send_error", "timeout", "http_error"} THEN Raised
    ELSE IF o.kind = "bad_body" THEN Returned(0, FALSE, FALSE)
    ELSE Returned(o.count, FALSE, FALSE)

\* enrich_biomarkers_pubmed_v3.py: only int() is guarded.
pubmed_count(o) ==
    IF o.kind = "ok" THEN Returned(o.count, FALSE, TRUE) ELSE Raised

Scripts == {"enrich_biomarkers_pubmed", "enrich_biomarkers_pubmed_fixed",
            "build_pubmed_edges_from_lists", "enrich_biomarkers_pubmed_v3"}

CountFunction(sc, o) ==
    CASE sc = "enrich_biomarkers_pubmed" -> esearch_count(o)
      [] sc = "enrich_biomarkers_pubmed_fixed" -> query_pubmed_count_fixed(o)
      [] sc = "build_pubmed_edges_from_lists" -> query_pubmed_count(o)
      [] sc = "enrich_biomarkers_pubmed_v3" -> pubmed_count(o)

\* The loop body of the callers: build_enriched_pairs, main (fixed), main
\* (lists) and enrich_pubmed_counts (v3, the only one with try/except).
CallerCatches(sc) == sc = "enrich_biomarkers_pubmed_v3"
CallerSleeps(sc) == sc \in {"enrich_biomarkers_pubmed", "build_pubmed_edges_from_lists"}

\* The biomarker-disease pairs of the run.
PubmedPairs ==
    <<[biomarker_name |-> "b1", disease_name |-> "n1"],
      [biomarker_name |-> "b1", disease_name |-> "n2"],
      [biomarker_name |-> "b2", disease_name |-> "n1"]>>

\* One iteration of the enrichment loop: the lookup and the row it appends.
Lookup ==
    /\ status = "running"
    /\ idx <= Len(PubmedPairs)
    /\ \E o \in Outcomes :
          LET res == CountFunction(script, o)
              row == [biomarker_name |-> PubmedPairs[idx].biomarker_name,
                      disease_name |-> PubmedPairs[idx].disease_name,
                      pubmed_query |-> "q1",
                      pubmed_count |-> ToString(res.count)]
          IN /\ failed' = IF o.kind # "ok" THEN failed \cup {idx} ELSE failed
             /\ raisedAt' = IF res.raised THEN raisedAt \cup {idx} ELSE raisedAt
             /\ IF res.raised /\ ~CallerCatches(script)
                THEN /\ status' = "aborted"
                     /\ events' = Append(events, "request")
                     /\ UNCHANGED <<idx, outRows, warned>>
                ELSE /\ outRows' = Append(outRows, row)
                     /\ idx' = idx + 1
                     /\ warned' = IF res.warned \/ res.raised
                                  THEN warned \cup {idx} ELSE warned
                     /\ events' = events \o <<"request">> \o
                                  (IF res.slept \/ CallerSleeps(script)
                                   THEN <<"sleep">> ELSE <<>>)
                     /\ UNCHANGED status
    /\ UNCHANGED <<script, graphVars, fetchVars, mergeVars, scriptVars, resolveVars,
                   combineVars, lastOp>>

\* After the loop the rows are written to the output CSV.
WriteCsv ==
    /\ status = "running"
    /\ idx > Len(PubmedPairs)
    /\ status' = "written"
    /\ UNCHANGED <<script, idx, outRows, warned, failed, raisedAt, events,
                   graphVars, fetchVars, mergeVars, scriptVars, resolveVars, combineVars, lastOp>>

\* The row main of build_pubmed_edges_from_lists.py writes for a pair: the
\* list files of the run have the name columns only, so b.get and d.get give
\* their defaults.
AsAutoRow(row) ==
    [biomarker_name |-> row.biomarker_name, biomarker_category |-> "",
     disease_name |-> row.disease_name, doid |-> "", disease_category |-> "",
     is_cancer_like |-> "", specimen_type |-> "",
     pubmed_query |-> row.pubmed_query, pubmed_count |-> row.pubmed_count]

\* main of import_biomarker_disease_edges_auto.py: its EDGES_CSV is the
\* OUT_CSV of build_pubmed_edges_from_lists.py.
ImportWrittenCsv ==
    /\ status = "written"
    /\ script = "build_pubmed_edges_from_lists"
    /\ SetGraph(auto_main(Graph, [i \in DOMAIN outRows |-> AsAutoRow(outRows[i])]))
    /\ status' = "imported"
    /\ UNCHANGED <<runs, script, idx, outRows, warned, failed, raisedAt, events,
                   fetchVars, mergeVars, scriptVars, resolveVars, combineVars, lastOp>>

InitPubmed ==
    /\ script \in Scripts
    /\ idx = 1
    /\ outRows = <<>>
    /\ status = "running"
    /\ warned = {}
    /\ failed = {}
    /\ raisedAt = {}
    /\ events = <<>>

InitPubmedIdle ==
    /\ script = "enrich_biomarkers_pubmed"
    /\ idx = 1
    /\ outRows = <<>>
    /\ status = "idle"
    /\ warned = {}
    /\ failed = {}
    /\ raisedAt = {}
    /\ events = <<>>

NextPubmed == Lookup \/ WriteCsv \/ ImportWrittenCsv

-----------------------------------------------------------------------------
(* merge_weak_into_matrix.py: the union of two ';'-separated lists.        *)

\* A cell read by pandas: a str, or NaN for an empty cell.
Str(chars) == [isstr |-> TRUE, chars |-> chars]
NaN == [isstr |-> FALSE, chars |-> <<>>]

\* [p.strip() for p in val.split(";") if p.strip()], or nothing when val is
\* not a str or is blank.
parts(val) ==
    IF val.isstr /\ Strip(val.chars) # <<>>
    THEN LET ps == Split(val.chars, ";")
         IN SelectSeq([i \in DOMAIN ps |-> Strip(ps[i])], LAMBDA q : q # <<>>)
    ELSE <<>>

\* A variant that joins the items as they come.
combine_text_lists_unsorted(a, b) ==
    LET items == parts(a) \o parts(b)
    IN IF items = <<>> THEN <<>> ELSE Join(items, <<";", " ">>)

combine_text_lists(a, b) ==
    LET items == parts(a) \o parts(b)
    IN IF items = <<>> THEN <<>> ELSE Join(Sorted(Range(items)), <<";", " ">>)

\* main(): merged[strong_col] = combine_text_lists(row[strong_col], row[weak_col])
CombineColumns ==
    /\ lastOp = "none"
    /\ combined' = combine_text_lists(strong_val, weak_val)
    /\ lastOp' = "combine"
    /\ UNCHANGED <<strong_val, weak_val, graphVars, fetchVars, mergeVars, scriptVars,
                   pubmedVars, resolveVars>>

MaxLen == 3
ListChars == {"a", "x", ";", " "}
Cells == {Str(c) : c \in SeqsUpTo(ListChars, MaxLen)} \cup {NaN}

InitCombine ==
    /\ strong_val \in Cells
    /\ weak_val \in Cells
    /\ combined = <<>>

InitCombineIdle ==
    /\ strong_val = NaN
    /\ weak_val = NaN
    /\ combined = <<>>

NextCombine == CombineColumns

-----------------------------------------------------------------------------
(* merge_diseases_with_doid.py and build_biomarker_disease_edges.py.       *)

\* The disease names of the tables, the device names and the names of the
\* nodes the queries read, and the characters of each.
DiseaseNames == {"flu", "Flu", "flu ", "gout", "q fever", "q  fever"}
DeviceNames == {"lamp", "dipstick"}

NameChars(n) ==
    CASE n = "flu"  -> <<"f", "l", "u">>
      [] n = "Flu"  -> <<"F", "l", "u">>
      [] n = "flu " -> <<"f", "l", "u", " ">>
      [] n = "gout" -> <<"g", "o", "u", "t">>
      [] n = "q fever"  -> <<"q", " ", "f", "e", "v", "e", "r">>
      [] n = "q  fever" -> <<"q", " ", " ", "f", "e", "v", "e", "r">>
      [] n = "a1" -> <<"a", "1">>
      [] n = "A2" -> <<"A", "2">>
      [] n = "x2" -> <<"x", "2">>
      [] n = "n1" -> <<"n", "1">>
      [] n = "n2" -> <<"n", "2">>
      [] n = "lamp"     -> <<"l", "a", "m", "p">>
      [] n = "dipstick" -> <<"d", "i", "p", "s", "t", "i", "c", "k">>

\* str.lower() and toLower(), on the characters of the names
Lower(s) ==
    [i \in DOMAIN s |-> CASE s[i] = "F" -> "f" [] s[i] = "A" -> "a"
                           [] s[i] = "N" -> "n" [] s[i] = "I" -> "i"
                           [] s[i] = "D" -> "d" [] s[i] = "K" -> "k"
                           [] OTHER -> s[i]]

\* df["name"].str.lower().str.strip()
name_norm(n) == Strip(Lower(NameChars(n)))

\* pandas writes a column that holds NaN as floats.
FloatText(v) == IF v = "1" THEN "1.0" ELSE IF v = "0" THEN "0.0" ELSE v

\* pd.merge(df_local, df_doid[...], on="name_norm", how="left"): one output row
\* per matching ontology row, in ontology order; one row without DOID if none.
RECURSIVE left_merge(_, _)
left_merge(local, doid) ==
    IF local = <<>> THEN <<>>
    ELSE LET l == Head(local)
             m == SelectSeq(doid, LAMBDA o : name_norm(o.name) = name_norm(l.name))
         IN (IF m = <<>>
             THEN <<[name |-> l.name, doid |-> NULL, doid_id |-> NULL,
                     is_cancer_like |-> NULL]>>
             ELSE [i \in DOMAIN m |->
                      [name |-> l.name, doid |-> m[i].doid, doid_id |-> NULL,
                       is_cancer_like |-> m[i].is_cancer_like]])
            \o left_merge(Tail(local), doid)

\* main of merge_diseases_with_doid.py: the merged rows, then the ontology
\* rows whose name_norm is in no local row, with doid renamed to doid_id.
merge_diseases_main(local, doid) ==
    LET merged == left_merge(local, doid)
        only == SelectSeq(doid, LAMBDA o :
                    \A i \in DOMAIN local : name_norm(local[i].name) # name_norm(o.name))
        doid_only == [i \in DOMAIN only |->
                         [name |-> only[i].name, doid |-> NULL,
                          doid_id |-> only[i].doid,
                          is_cancer_like |-> only[i].is_cancer_like]]
        final == merged \o doid_only
        hasNaN == \E i \in DOMAIN final : final[i].is_cancer_like = NULL
    IN [exists |-> TRUE, header |-> <<>>,
        rows |-> [i \in DOMAIN final |->
                     [final[i] EXCEPT !.is_cancer_like =
                         IF @ = NULL THEN "" ELSE IF hasNaN THEN FloatText(@) ELSE @,
                                      !.doid = IF @ = NULL THEN "" ELSE @,
                                      !.doid_id = IF @ = NULL THEN "" ELSE @]]]

RunMergeDiseases ==
    /\ enrichedCsv' = merge_diseases_main(diseasesCsv, ontologyCsv)
    /\ lastOp' = "merge_diseases"
    /\ UNCHANGED <<diseasesCsv, ontologyCsv, pairsCsv, edgesOut,
                   graphVars, fetchVars, mergeVars, scriptVars, pubmedVars, combineVars>>

\* bdf.merge(d_keep, left_on="disease_name", right_on="name", how="left",
\* indicator=True), then the rows with _merge == "both".
RECURSIVE build_edges(_, _)
build_edges(bdf, ddf) ==
    IF bdf = <<>> THEN <<>>
    ELSE LET b == Head(bdf)
             m == SelectSeq(ddf, LAMBDA d : d.name = b.disease_name)
         IN [i \in DOMAIN m |->
                [biomarker_id |-> b.biomarker_id, biomarker_name |-> b.biomarker_name,
                 disease_name |-> b.disease_name, doid |-> m[i].doid,
                 is_cancer_like |-> m[i].is_cancer_like,
                 pubmed_query |-> b.pubmed_query, pubmed_count |-> b.pubmed_count]]
            \o build_edges(Tail(bdf), ddf)

\* main of build_biomarker_disease_edges.py.  The left merge gives the
\* unmatched rows NaN, which makes is_cancer_like a float column.
build_edges_main(bdf, ddf) ==
    LET keep == build_edges(bdf, ddf)
        asFloat == \/ \E i \in DOMAIN bdf : \A j \in DOMAIN ddf :
                          ddf[j].name # bdf[i].disease_name
                   \/ \E j \in DOMAIN ddf : ddf[j].is_cancer_like = ""
    IN [exists |-> TRUE, header |-> EdgesColumns,
        rows |-> [i \in DOMAIN keep |->
                     [keep[i] EXCEPT !.is_cancer_like =
                         IF asFloat THEN FloatText(@) ELSE @]]]

RunBuildEdges ==
    /\ enrichedCsv.exists
    /\ edgesOut' = build_edges_main(pairsCsv, enrichedCsv.rows)
    /\ lastOp' = "build_edges"
    /\ UNCHANGED <<diseasesCsv, ontologyCsv, enrichedCsv, pairsCsv,
                   graphVars, fetchVars, mergeVars, scriptVars, pubmedVars, combineVars>>

\* import_enriched_diseases.py on the enriched table.
ImportEnrichedTable ==
    /\ runs < MaxRuns
    /\ enrichedCsv.exists
    /\ SetGraph(import_enriched_diseases(Graph, read_enriched_diseases(
           [i \in DOMAIN enrichedCsv.rows |->
               [name |-> enrichedCsv.rows[i].name, doid |-> enrichedCsv.rows[i].doid,
                is_cancer_like |-> enrichedCsv.rows[i].is_cancer_like]])))
    /\ lastOp' = "import_diseases"
    /\ runs' = runs + 1
    /\ UNCHANGED <<resolveVars, fetchVars, mergeVars, scriptVars, pubmedVars, combineVars>>

\* import_biomarker_disease_edges.py on the built edges.
ImportBuiltEdges ==
    /\ runs < MaxRuns
    /\ edgesOut.exists
    /\ SetGraph(edges_main(Graph, edgesOut.rows))
    /\ lastOp' = "import_edges"
    /\ runs' = runs + 1
    /\ UNCHANGED <<resolveVars, fetchVars, mergeVars, scriptVars, pubmedVars, combineVars>>

LocalRows == [name : {"flu", "flu ", "gout", "q  fever"}]
OntologyRows ==
    {[doid |-> "D1", name |-> "flu", is_cancer_like |-> "0"],
     [doid |-> "D2", name |-> "Flu", is_cancer_like |-> "0"],
     [doid |-> "D3", name |-> "gout", is_cancer_like |-> "1"],
     [doid |-> "D4", name |-> "q fever", is_cancer_like |-> "0"]}
PairRows ==
    [biomarker_id : {"B1"}, biomarker_name : {"b1"}, disease_name : {"flu", "gout"},
     pubmed_query : {"q1"}, pubmed_count : {"1"}]

InitResolve ==
    /\ diseasesCsv \in SeqsUpTo(LocalRows, MaxRows)
    /\ ontologyCsv \in SeqsUpTo(OntologyRows, MaxRows)
    /\ pairsCsv \in SeqsUpTo(PairRows, MaxRows)
    /\ enrichedCsv = NoFile
    /\ edgesOut = NoFile

InitResolveIdle ==
    /\ diseasesCsv = <<>>
    /\ ontologyCsv = <<>>
    /\ pairsCsv = <<>>
    /\ enrichedCsv = NoFile
    /\ edgesOut = NoFile

NextResolve == RunMergeDiseases \/ RunBuildEdges \/ ImportEnrichedTable \/ ImportBuiltEdges

-----------------------------------------------------------------------------
(* import_fda_devices.py, enrich_methods_from_mesh.py and                  *)
(* update_detection_methods_from_devices.py on the Device and              *)
(* DetectionMethod nodes.  A DetectionMethod node is identified by its     *)
(* name, a relationship by its type and its end nodes.                     *)

\* Python's `sub in s` and Cypher's `s CONTAINS sub`
Contains(s, sub) ==
    \E i \in 0..(Len(s) - Len(sub)) : SubSeq(s, i + 1, i + Len(sub)) = sub

\* infer_detection_method(name) of import_fda_devices.py
infer_detection_method(name) ==
    LET name_lower == Lower(NameChars(name))
    IN
       IF Contains(name_lower, <<"p", "c", "r">>) \/ Contains(name_lower, <<"p", "o", "l", "y", "m", "e", "r", "a", "s", "e">>)
       THEN "PCR" ELSE
       IF Contains(name_lower, <<"l", "a", "m", "p">>)
       THEN "LAMP" ELSE
       IF Contains(name_lower, <<"f", "l", "u", "o", "r">>)
       THEN "Fluorescence" ELSE
       IF Contains(name_lower, <<"c", "o", "l", "o", "r">>) \/ Contains(name_lower, <<"c", "o", "l", "o", "r", "i", "m", "e", "t", "r", "i", "c">>)
       THEN "Colorimetric" ELSE
       IF Contains(name_lower, <<"i", "m", "m", "u", "n", "o">>)
       THEN "Immunoassay" ELSE
       IF Contains(name_lower, <<"a", "n", "a", "l", "y", "z", "e", "r">>)
       THEN "Analyzer" ELSE
       IF Contains(name_lower, <<"b", "i", "o", "s", "e", "n", "s", "o", "r">>)
       THEN "Biosensor" ELSE
       IF Contains(name_lower, <<"d", "i", "p", "s", "t", "i", "c", "k">>) \/ Contains(name_lower, <<"u", "r", "i", "n", "e">>)
       THEN "Urinalysis" ELSE
       "General Assay"

\* The records of the FDA 510(k) answer, after clean_device.
FdaRecords == [k_number : {"K1", "K2"}, device_name : DeviceNames]

\* import_devices: MERGE the Device on k_number and SET its name, then MERGE
\* the DetectionMethod of its name and the USES_METHOD relationship.
RECURSIVE import_devices(_, _)
import_devices(mg, recs) ==
    IF recs = <<>> THEN mg
    ELSE LET d == Head(recs)
             old == {x \in mg.dev : x.k_number = d.k_number}
             dev == IF old = {}
                    THEN {[k_number |-> d.k_number, name |-> d.device_name,
                           device_name |-> NULL]}
                    ELSE {[x EXCEPT !.name = d.device_name] : x \in old}
             method == infer_detection_method(d.device_name)
         IN import_devices(
                [dev |-> (mg.dev \ old) \cup dev,
                 m |-> mg.m \cup {method},
                 r |-> mg.r \cup {[type |-> "USES_METHOD", src |-> d.k_number,
                                   tgt |-> method]}],
                Tail(recs))

ImportFdaDevices ==
    /\ \E recs \in SeqsUpTo(FdaRecords, MaxBatch) :
          LET mg == import_devices([dev |-> devices, m |-> mnodes, r |-> mrels], recs)
          IN /\ devices' = mg.dev
             /\ mnodes' = mg.m
             /\ mrels' = mg.r
    /\ UNCHANGED <<bnodes, dnodes, rels, nextId, lastObs, runs, srels, call, report,
                   nonGraphVars>>

\* main of enrich_methods_from_mesh.py: for every Biomarker of the store and
\* every method label MeSH gives for it, store_method_in_neo4j MERGEs the
\* DetectionMethod and the MEASURED_IN_METHOD relationship.
EnrichMethodsFromMesh ==
    /\ \E methods \in [{b.name : b \in bnodes} -> SUBSET {"immunoassay", "LAMP"}] :
          /\ mnodes' = mnodes \cup UNION {methods[b] : b \in DOMAIN methods}
          /\ mrels' = mrels \cup UNION
                 {{[type |-> "MEASURED_IN_METHOD", src |-> b, tgt |-> m] :
                      m \in methods[b]} : b \in DOMAIN methods}
    /\ UNCHANGED <<bnodes, dnodes, rels, nextId, lastObs, runs, devices, srels, call, report,
                   nonGraphVars>>

\* classify_cypher: the method of a Device.  toLower(null) is null and a null
\* WHEN condition is not taken, so a Device without device_name gets ELSE.
classify_cypher(device_name) ==
    IF device_name = NULL THEN "Analyzer"
    ELSE LET name == Lower(NameChars(device_name))
         IN
            IF Contains(name, <<"l", "a", "m", "p">>)
            THEN "LAMP" ELSE
            IF Contains(name, <<" ", "p", "c", "r">>) \/ Contains(name, <<"p", "o", "l", "y", "m", "e", "r", "a", "s", "e", " ", "c", "h", "a", "i", "n", " ", "r", "e", "a", "c", "t", "i", "o", "n">>)
            THEN "PCR" ELSE
            IF Contains(name, <<"f", "l", "u", "o", "r", "e", "s", "c", "e", "n">>)
            THEN "Fluorescence" ELSE
            IF Contains(name, <<"i", "m", "m", "u", "n", "o", "a", "s", "s", "a", "y">>) \/ Contains(name, <<"r", "a", "d", "i", "o", "i", "m", "m", "u", "n", "o", "a", "s", "s", "a", "y">>) \/ Contains(name, <<"i", "m", "m", "u", "n", "o", " ", "a", "s", "s", "a", "y">>) \/ Contains(name, <<"e", "l", "i", "s", "a">>)
            THEN "Immunoassay" ELSE
            IF Contains(name, <<"d", "i", "p", "s", "t", "i", "c", "k">>) \/ Contains(name, <<"l", "a", "t", "e", "r", "a", "l", " ", "f", "l", "o", "w">>) \/ Contains(name, <<"t", "e", "s", "t", " ", "s", "t", "r", "i", "p">>) \/ Contains(name, <<"s", "t", "r", "i", "p", " ", "t", "e", "s", "t">>)
            THEN "Dipstick" ELSE
            IF Contains(name, <<"c", "o", "l", "o", "r", "i", "m", "e", "t", "r", "i", "c">>) \/ Contains(name, <<"c", "o", "l", "o", "u", "r", "i", "m", "e", "t", "r", "i", "c">>)
            THEN "Colorimetric" ELSE
            IF Contains(name, <<"b", "i", "o", "s", "e", "n", "s", "o", "r">>)
            THEN "Biosensor" ELSE
            "Analyzer"

\* main of update_detection_methods_from_devices.py: DETACH DELETE every
\* DetectionMethod node, then MERGE the method of every Device and its
\* USES_METHOD relationship.
UpdateDetectionMethods ==
    /\ mnodes' = {classify_cypher(d.device_name) : d \in devices}
    /\ mrels' = {[type |-> "USES_METHOD", src |-> d.k_number,
                  tgt |-> classify_cypher(d.device_name)] : d \in devices}
    /\ UNCHANGED <<bnodes, dnodes, rels, nextId, lastObs, runs, devices, srels, call, report,
                   nonGraphVars>>

NextMethods == ImportFdaDevices \/ EnrichMethodsFromMesh \/ UpdateDetectionMethods

-----------------------------------------------------------------------------
(* The queries of the app: search_queries.py and app.py.  A query reads    *)
(* the store and changes nothing in it.  In the stores of this part the    *)
(* nodes of one label have different names, and a node is known to the     *)
(* caller by str(id): the text of nid for a Biomarker or Disease, the name *)
(* for a Specimen or DetectionMethod, k_number for a Device.               *)

MaxLimit == 2        \* largest limit / max_pairs a caller passes
MaxSpecimens == 3    \* specimens attached to one biomarker
TabLimit == 2        \* rows the Tab 1 query returns at most (LIMIT 500 in app.py)

\* What an OPTIONAL MATCH that finds nothing binds: a null node and a null
\* relationship, whose properties are null (-1 for the null count).
Unbound == [nid |-> 0, name |-> NULL, category |-> NULL, pubmed_count |-> -1]

NoCall ==
    [fn |-> "none", q |-> <<>>, limit |-> 0, min_pubmed |-> 0, category |-> NULL,
     rows |-> <<>>, pairs |-> {}, nodes |-> <<>>, edges |-> <<>>, warning |-> NULL]

\* The search terms a user types.
Terms == {<<"a">>, <<"1">>, <<"x">>, <<"N">>}

\* toLower(n.name) CONTAINS q
name_contains(name, q) == Contains(Lower(NameChars(name)), q)

\* ORDER BY ... DESC on a count: null sorts first, then the larger count.
desc(c1, c2) ==
    c1 # c2 /\ (c1 = Unbound.pubmed_count \/ (c2 # Unbound.pubmed_count /\ c1 > c2))

\* ORDER BY ... LIMIT n, for the pairs <<x, y>> of rows of which the clause
\* puts x before y: the first n rows of an order of the rows in which no row
\* comes after a row that the clause puts behind it; rows the clause does not
\* order come in any order.
order_by(rows, before, n) ==
    {SubSeq(s, 1, IF n < Len(s) THEN n ELSE Len(s)) :
        s \in {t \in [1..Cardinality(rows) -> rows] :
                  /\ \A i, j \in DOMAIN t : i # j => t[i] # t[j]
                  /\ \A i, j \in DOMAIN t : i < j => <<t[j], t[i]>> \notin before}}

\* The names of the Specimen nodes a relationship of the type leads to from a
\* node; none from the null node.
specimens_of(type, node) ==
    {e.tgt : e \in {x \in srels : x.type = type /\ x.src = ToString(node.nid)}}

\* search_by_biomarker(term, limit): the answers the statement can give.
search_by_biomarker(term, limit) ==
    LET matched == {b \in bnodes : name_contains(b.name, Lower(term))}
        row(b, d, cnt) ==
            [biomarker |-> b.name,
             disease |-> d.name,
             disease_category |-> IF d.category = NULL THEN "unknown" ELSE d.category,
             pubmed_count |-> cnt,
             specimens |-> specimens_of("MEASURED_IN_SPECIMEN", b)]
        rows == UNION {IF \E r \in rels : r.b = b.nid
                       THEN {row(b, x[2], x[1].pubmed_count) :
                                x \in {y \in rels \X dnodes :
                                          y[1].b = b.nid /\ y[1].d = y[2].nid}}
                       ELSE {row(b, Unbound, Unbound.pubmed_count)} : b \in matched}
    IN order_by(rows, {p \in rows \X rows : desc(p[1].pubmed_count, p[2].pubmed_count)},
                limit)

\* search_by_disease(term, limit): the answers the statement can give.
search_by_disease(term, limit) ==
    LET matched == {d \in dnodes : name_contains(d.name, Lower(term))}
        row(d, b, cnt) ==
            [disease |-> d.name,
             disease_category |-> IF d.category = NULL THEN "unknown" ELSE d.category,
             biomarker |-> b.name,
             pubmed_count |-> cnt,
             disease_specimens |-> specimens_of("DETECTED_IN_SPECIMEN", d),
             biomarker_specimens |-> specimens_of("MEASURED_IN_SPECIMEN", b)]
        rows == UNION {IF \E r \in rels : r.d = d.nid
                       THEN {row(d, x[2], x[1].pubmed_count) :
                                x \in {y \in rels \X bnodes :
                                          y[1].d = d.nid /\ y[1].b = y[2].nid}}
                       ELSE {row(d, Unbound, Unbound.pubmed_count)} : d \in matched}
    IN order_by(rows, {p \in rows \X rows : desc(p[1].pubmed_count, p[2].pubmed_count)},
                limit)

SearchByBiomarker ==
    /\ \E term \in Terms, limit \in 1..MaxLimit :
          \E rows \in search_by_biomarker(term, limit) :
              call' = [NoCall EXCEPT !.fn = "search_by_biomarker", !.q = term,
                                     !.limit = limit, !.rows = rows]
    /\ UNCHANGED <<bnodes, dnodes, rels, nextId, lastObs, runs, devices, mnodes,
                   mrels, srels, report, nonGraphVars>>

SearchByDisease ==
    /\ \E term \in Terms, limit \in 1..MaxLimit :
          \E rows \in search_by_disease(term, limit) :
              call' = [NoCall EXCEPT !.fn = "search_by_disease", !.q = term,
                                     !.limit = limit, !.rows = rows]
    /\ UNCHANGED <<bnodes, dnodes, rels, nextId, lastObs, runs, devices, mnodes,
                   mrels, srels, report, nonGraphVars>>

\* The (b, r, d) paths of the store and the row the Tab 1 query returns for one.
Paths == {x \in bnodes \X rels \X dnodes : x[2].b = x[1].nid /\ x[2].d = x[3].nid}

tab1_row(x) ==
    [biomarker |-> x[1].name, disease |-> x[3].name,
     disease_category |-> x[2].disease_category,
     disease_is_cancer_like |-> x[3].is_cancer_like,
     pubmed_count |-> x[2].pubmed_count,
     biomarker_specimens |-> specimens_of("MEASURED_IN_SPECIMEN", x[1]),
     disease_specimens |-> specimens_of("DETECTED_IN_SPECIMEN", x[3])]

\* ORDER BY pubmed_count DESC, biomarker, disease
tab1_before(x, y) ==
    \/ desc(x.pubmed_count, y.pubmed_count)
    \/ /\ x.pubmed_count = y.pubmed_count
       /\ \/ StrLess(NameChars(x.biomarker), NameChars(y.biomarker))
          \/ /\ x.biomarker = y.biomarker
             /\ StrLess(NameChars(x.disease), NameChars(y.disease))

\* A variant that truncates the ranked matches of the term before it applies
\* the filters.
tab1_query_limit_first(q, min_pubmed, category, limit) ==
    LET hits == {x \in Paths :
                    name_contains(x[1].name, q) \/ name_contains(x[3].name, q)}
        pass(row) == /\ row.pubmed_count >= min_pubmed
                     /\ category # "(All)" => row.disease_category = category
        rows == {tab1_row(x) : x \in hits}
    IN {SelectSeq(s, pass) :
           s \in order_by(rows, {p \in rows \X rows : tab1_before(p[1], p[2])}, limit)}

\* The Tab 1 statement: WHERE, then ORDER BY, then LIMIT.
tab1_query(q, min_pubmed, category, limit) ==
    LET hits == {x \in Paths :
                    /\ name_contains(x[1].name, q) \/ name_contains(x[3].name, q)
                    /\ x[2].pubmed_count >= min_pubmed
                    /\ category # "(All)" => x[2].disease_category = category}
        rows == {tab1_row(x) : x \in hits}
    IN order_by(rows, {p \in rows \X rows : tab1_before(p[1], p[2])}, limit)

\* Tab 1 of the app: the sidebar inputs, the query and what is shown for it.
Tab1BiomarkerDisease ==
    /\ \E term \in Terms, min_pubmed \in {0, 2},
          selected_category \in {"(All)"} \cup
                                ({r.disease_category : r \in rels} \ {NULL}) :
          \E rows \in tab1_query(Lower(Strip(term)), min_pubmed, selected_category,
                                 TabLimit) :
              call' = [NoCall EXCEPT
                          !.fn = "tab1", !.q = Lower(Strip(term)), !.limit = TabLimit,
                          !.min_pubmed = min_pubmed, !.category = selected_category,
                          !.rows = rows,
                          !.warning = IF rows = <<>>
                                      THEN "No biomarker-disease edges matched your search/filters."
                                      ELSE NULL]
    /\ UNCHANGED <<bnodes, dnodes, rels, nextId, lastObs, runs, devices, mnodes,
                   mrels, srels, report, nonGraphVars>>

\* A variant that stores the node without looking for its id in the dict.
add_node_again(nodes, node_id, label, kind) ==
    IF node_id = NULL \/ label = NULL THEN nodes
    ELSE Append(nodes, [id |-> node_id, label |-> label, kind |-> kind])

\* add_node: the dict as the sequence of its items.
add_node(nodes, node_id, label, kind) ==
    IF node_id = NULL \/ label = NULL THEN nodes
    ELSE IF \E i \in DOMAIN nodes : nodes[i].id = node_id THEN nodes
    ELSE Append(nodes, [id |-> node_id, label |-> label, kind |-> kind])

\* get_path_graph_data for the pairs its first LIMIT kept: the rows of the
\* statement (one per combination of the OPTIONAL MATCHes), the loop over
\* them that fills nodes (their order decides the order of the items only)
\* and edges_set, and list(edges_set) in one of its orders.
get_path_graph_data(pairs) ==
    LET orNull(S) == IF S = {} THEN {NULL} ELSE S
        devs(d) == orNull({e.src : e \in {x \in srels : x.type = "INTENDED_FOR"
                                             /\ x.tgt = ToString(d.nid)}})
        meths(k) == IF k = NULL THEN {NULL}
                    ELSE orNull({e.tgt : e \in {x \in mrels : x.type = "USES_METHOD"
                                                   /\ x.src = k}})
        dev_name(k) == IF k = NULL THEN NULL
                       ELSE (CHOOSE x \in devices : x.k_number = k).device_name
        rows == UNION {{[b_id |-> ToString(p[1].nid), b_name |-> p[1].name,
                         d_id |-> ToString(p[2].nid), d_name |-> p[2].name,
                         s1_id |-> y[1][1], s1_name |-> y[1][1],
                         s2_id |-> y[1][2], s2_name |-> y[1][2],
                         dev_id |-> y[1][3], dev_name |-> dev_name(y[1][3]),
                         m_id |-> y[2], m_name |-> y[2]] :
                           y \in {z \in (orNull(specimens_of("MEASURED_IN_SPECIMEN", p[1]))
                                         \X orNull(specimens_of("DETECTED_IN_SPECIMEN", p[2]))
                                         \X devs(p[2])) \X (mnodes \cup {NULL}) :
                                     z[2] \in meths(z[1][3])}} : p \in pairs}
        RECURSIVE fill(_, _)
        fill(nodes, rs) ==
            IF rs = {} THEN nodes
            ELSE LET r == CHOOSE x \in rs : TRUE
                     n1 == add_node(nodes, r.b_id, r.b_name, "Biomarker")
                     n2 == add_node(n1, r.d_id, r.d_name, "Disease")
                     n3 == add_node(n2, r.s1_id, r.s1_name, "Specimen")
                     n4 == add_node(n3, r.s2_id, r.s2_name, "Specimen")
                     n5 == add_node(n4, r.dev_id, r.dev_name, "Device")
                     n6 == add_node(n5, r.m_id, r.m_name, "DetectionMethod")
                 IN fill(n6, rs \ {r})
        edge(src, dst, type) == IF src = NULL \/ dst = NULL THEN {}
                                ELSE {<<src, dst, type>>}
        edges_set == UNION {edge(r.b_id, r.d_id, "BIOMARKER_ASSOCIATED_WITH_DISEASE")
                            \cup edge(r.b_id, r.s1_id, "MEASURED_IN_SPECIMEN")
                            \cup edge(r.d_id, r.s2_id, "DETECTED_IN_SPECIMEN")
                            \cup edge(r.dev_id, r.d_id, "INTENDED_FOR")
                            \cup edge(r.dev_id, r.m_id, "USES_METHOD") : r \in rows}
        RECURSIVE list(_)
        list(S) == IF S = {} THEN <<>>
                   ELSE LET e == CHOOSE x \in S : TRUE IN <<e>> \o list(S \ {e})
    IN [nodes |-> fill(<<>>, rows), edges |-> list(edges_set)]

\* The call get_path_graph_data(q, max_pairs) of the app: LIMIT without
\* ORDER BY keeps any max_pairs of the matching pairs.
GetPathGraphData ==
    /\ \E term \in Terms, max_pairs \in 1..MaxLimit :
          LET q == Lower(Strip(term))
              matching == {x \in bnodes \X dnodes :
                              /\ \E r \in rels : r.b = x[1].nid /\ r.d = x[2].nid
                              /\ name_contains(x[1].name, q) \/ name_contains(x[2].name, q)}
          IN \E kept \in SUBSET matching :
                /\ Cardinality(kept) = IF max_pairs < Cardinality(matching)
                                       THEN max_pairs ELSE Cardinality(matching)
                /\ call' = [NoCall EXCEPT
                               !.fn = "get_path_graph_data", !.q = q, !.limit = max_pairs,
                               !.pairs = {<<ToString(x[1].nid), ToString(x[2].nid)>> :
                                             x \in kept},
                               !.nodes = get_path_graph_data(kept).nodes,
                               !.edges = get_path_graph_data(kept).edges]
    /\ UNCHANGED <<bnodes, dnodes, rels, nextId, lastObs, runs, devices, mnodes,
                   mrels, srels, report, nonGraphVars>>

NextSearch == SearchByBiomarker \/ SearchByDisease \/ Tab1BiomarkerDisease \/ GetPathGraphData

-----------------------------------------------------------------------------
(* What the loaders write to their output: read_edges of                   *)
(* import_biomarker_disease_edges.py, read_enriched_diseases of            *)
(* import_enriched_diseases.py, load_biomarkers and load_diseases of       *)
(* build_pubmed_edges_from_lists.py.  A line of output is a record of its  *)
(* level, its text and the number it carries; a report records, for one    *)
(* loader, the rows of the file, the rows kept and the lines that reach    *)
(* the output.                                                             *)

\* read_edges logs through logging, configured with level=logging.INFO, so
\* the debug line of a skipped row (numbered from 2) is not emitted.
LoadEdges ==
    /\ \E csv \in SeqsUpTo([biomarker_id : {"", "B1"}, doid : {"", "D1"},
                            pubmed_query : {""}, pubmed_count : {"", "3"},
                            is_cancer_like : {"1"}], MaxRows) :
          LET edges == read_edges(csv)
              skipped == {i \in DOMAIN csv :
                             csv[i].biomarker_id = "" \/ csv[i].doid = ""}
              log == {[level |-> "INFO", text |-> "Using edges CSV", n |-> 0]}
                     \cup {[level |-> "DEBUG", text |-> "Skipping row", n |-> i + 1]
                           : i \in skipped}
                     \cup {[level |-> "INFO", text |-> "Loaded", n |-> Len(edges)]}
          IN report' = {[loader |-> "read_edges", csv |-> csv, kept |-> Len(edges),
                         output |-> {m \in log : m.level # "DEBUG"}]}
    /\ UNCHANGED <<bnodes, dnodes, rels, nextId, lastObs, runs, devices, mnodes,
                   mrels, srels, call, nonGraphVars>>

\* import_enriched_diseases prints the number of rows read_enriched_diseases
\* returned.
LoadEnrichedDiseases ==
    /\ \E csv \in SeqsUpTo([name : {"", "n1"}, doid : {"", "D1"},
                            is_cancer_like : {"1"}], MaxRows) :
          LET rows == read_enriched_diseases(csv)
          IN report' = {[loader |-> "read_enriched_diseases", csv |-> csv,
                         kept |-> Len(rows),
                         output |-> {[level |-> "INFO", text |-> "Loading", n |-> 0],
                                     [level |-> "INFO", text |-> "Loaded",
                                      n |-> Len(rows)]}]}
    /\ UNCHANGED <<bnodes, dnodes, rels, nextId, lastObs, runs, devices, mnodes,
                   mrels, srels, call, nonGraphVars>>

\* main of build_pubmed_edges_from_lists.py loads both lists and prints the
\* length of each.
LoadLists ==
    /\ \E bcsv \in SeqsUpTo([biomarker_name : {"", "b1"}], MaxRows),
          dcsv \in SeqsUpTo([disease_name : {"", "n1"}], MaxRows) :
          LET load_biomarkers(csv) ==
                  SelectSeq(csv, LAMBDA row : row.biomarker_name # "")
              load_diseases(csv) ==
                  SelectSeq(csv, LAMBDA row : row.disease_name # "")
              printed(n) == {[level |-> "INFO", text |-> "Loading", n |-> 0],
                             [level |-> "INFO", text |-> "Loaded", n |-> n]}
          IN report' = {[loader |-> "load_biomarkers", csv |-> bcsv,
                         kept |-> Len(load_biomarkers(bcsv)),
                         output |-> printed(Len(load_biomarkers(bcsv)))],
                        [loader |-> "load_diseases", csv |-> dcsv,
                         kept |-> Len(load_diseases(dcsv)),
                         output |-> printed(Len(load_diseases(dcsv)))]}
    /\ UNCHANGED <<bnodes, dnodes, rels, nextId, lastObs, runs, devices, mnodes,
                   mrels, srels, call, nonGraphVars>>

NextLoad == LoadEdges \/ LoadEnrichedDiseases \/ LoadLists

-----------------------------------------------------------------------------
(* build_biomarker_matrix.py: pick_id_and_name on the ordered columns of a *)
(* table.  A column name is the sequence of its characters.                *)

\* The mutation of C21: the loops keep the last matching column.
pick_id_and_name_last(cols) ==
    LET ids == {i \in DOMAIN cols :
                   LET cl == Lower(cols[i])
                   IN \/ (Len(cl) >= 3 /\ SubSeq(cl, Len(cl) - 2, Len(cl)) = <<"_", "i", "d">>)
                      \/ cl = <<"i", "d">>}
        names == {i \in DOMAIN cols :
                     LET cl == Lower(cols[i])
                     IN \/ Contains(cl, <<"n", "a", "m", "e">>)
                        \/ Contains(cl, <<"l", "a", "b", "e", "l">>)
                        \/ Contains(cl, <<"d", "e", "s", "c">>)}
        id_col == IF ids = {} THEN cols[1]
                  ELSE cols[CHOOSE i \in ids : \A j \in ids : j <= i]
        name_col == IF names = {}
                    THEN (IF Len(cols) > 1 THEN cols[2] ELSE id_col)
                    ELSE cols[CHOOSE i \in names : \A j \in names : j <= i]
    IN <<id_col, name_col>>

\* pick_id_and_name(df, label): each loop breaks at the first column that
\* matches; cl.endswith("_id") or cl == "id" for the id column.
pick_id_and_name(cols) ==
    LET ids == {i \in DOMAIN cols :
                   LET cl == Lower(cols[i])
                   IN \/ (Len(cl) >= 3 /\ SubSeq(cl, Len(cl) - 2, Len(cl)) = <<"_", "i", "d">>)
                      \/ cl = <<"i", "d">>}
        names == {i \in DOMAIN cols :
                     LET cl == Lower(cols[i])
                     IN \/ Contains(cl, <<"n", "a", "m", "e">>)
                        \/ Contains(cl, <<"l", "a", "b", "e", "l">>)
                        \/ Contains(cl, <<"d", "e", "s", "c">>)}
        id_col == IF ids = {} THEN cols[1]
                  ELSE cols[CHOOSE i \in ids : \A j \in ids : i <= j]
        name_col == IF names = {}
                    THEN (IF Len(cols) > 1 THEN cols[2] ELSE id_col)
                    ELSE cols[CHOOSE i \in names : \A j \in names : i <= j]
    IN <<id_col, name_col>>

\* One call of pick_id_and_name in main, on a table read by pd.read_csv: at
\* least one column, no two columns of the same name.
PickIdAndName ==
    /\ \E cols \in SeqsUpTo({<<"i", "d">>, <<"K", "_", "I", "D">>, <<"p", "i", "d">>,
                             <<"N", "a", "m", "e">>, <<"d", "e", "s", "c">>, <<"x">>},
                            MaxCols) :
          /\ cols # <<>>
          /\ \A i, j \in DOMAIN cols : i # j => cols[i] # cols[j]
          /\ pick' = [cols |-> cols, id_col |-> pick_id_and_name(cols)[1],
                      name_col |-> pick_id_and_name(cols)[2]]
    /\ UNCHANGED <<graphVars, fetchVars, mergeVars, pubmedVars, resolveVars,
                   combineVars, lastOp, batch, client, entry, observed, export, cancer>>

-----------------------------------------------------------------------------
(* Two runs of fetch_markerdb_metabolic_edges.py on the same edges CSV at  *)
(* the same time.  main takes no lock: a run reads the pairs of the file,  *)
(* and later appends the rows it built from what it read.  The append of   *)
(* one run's rows is taken as one step.                                    *)

\* existing = load_existing_pairs()
BatchLoad ==
    /\ \E p \in DOMAIN batch :
          /\ batch[p].pc = "start"
          /\ batch' = [batch EXCEPT ![p] = [pc |-> "loaded",
                                            existing |-> load_existing_pairs(edgesCsv)]]
    /\ UNCHANGED <<edgesCsv, markerdb, lastOp, pick, client, entry, observed, export,
                   cancer, graphVars, mergeVars, pubmedVars, resolveVars, combineVars>>

\* rows = build_new_rows(existing); append_rows(rows)
BatchAppend ==
    /\ \E p \in DOMAIN batch :
          /\ batch[p].pc = "loaded"
          /\ edgesCsv' = append_rows(edgesCsv, build_new_rows(batch[p].existing, markerdb))
          /\ batch' = [batch EXCEPT ![p].pc = "done"]
    /\ UNCHANGED <<markerdb, lastOp, pick, client, entry, observed, export,
                   cancer, graphVars, mergeVars, pubmedVars, resolveVars, combineVars>>

NextBatch == BatchLoad \/ BatchAppend

-----------------------------------------------------------------------------
(* neo4j_client.get_driver, called from two threads of one process, and   *)
(* the scripts that read the connection parameters themselves.  The        *)
(* environment is the set of the parameters that are set; it is fixed from *)
(* the first call of a process on.                                         *)

\* if _driver is None: read the environment, raise if a parameter is missing;
\* otherwise return _driver.
GetDriverTest ==
    /\ client.calls < MaxCalls
    /\ \E t \in DOMAIN client.pc, env \in SUBSET {"NEO4J_URI", "NEO4J_USER", "NEO4J_PASSWORD"} :
          /\ client.pc[t] = "idle"
          /\ client.calls > 0 => env = client.env
          /\ client' =
                IF client.driver # 0
                THEN [client EXCEPT !.env = env, !.calls = @ + 1,
                                    !.rets = @ \cup {client.driver}]
                ELSE IF Cardinality(env) < 3
                THEN [client EXCEPT !.env = env, !.calls = @ + 1, !.raised = @ + 1]
                ELSE [client EXCEPT !.env = env, !.calls = @ + 1,
                                    !.pc[t] = "constructing"]
    /\ UNCHANGED <<graphVars, fetchVars, mergeVars, pubmedVars, resolveVars,
                   combineVars, lastOp, pick, batch, entry, observed, export, cancer>>

\* _driver = GraphDatabase.driver(uri, auth=(user, password)); return _driver
\* (taken as one step).  A driver is named by the order of its construction.
GetDriverConstruct ==
    /\ \E t \in DOMAIN client.pc :
          /\ client.pc[t] = "constructing"
          /\ client' = [client EXCEPT !.made = @ + 1, !.driver = client.made + 1,
                                      !.rets = @ \cup {client.made + 1},
                                      !.pc[t] = "idle"]
    /\ UNCHANGED <<graphVars, fetchVars, mergeVars, pubmedVars, resolveVars,
                   combineVars, lastOp, pick, batch, entry, observed, export, cancer>>

\* ingest_public_biomarkers.py: a parameter that is not set is replaced by a
\* placeholder (lines 16-18); the driver connects at its first use.  For the
\* first seed the script asks PubMed, then writes.  The store accepts the write
\* only if the URI and the password are the configured ones (the default user
\* "neo4j" may be the right one); whether the driver rejects the placeholder
\* URI when it is constructed is left open.
IngestAllBiomarkers ==
    /\ \E env \in SUBSET {"NEO4J_URI", "NEO4J_USER", "NEO4J_PASSWORD"},
          lookup_ok \in BOOLEAN, accepted \in BOOLEAN, eager \in BOOLEAN :
          /\ accepted => {"NEO4J_URI", "NEO4J_PASSWORD"} \subseteq env
          /\ eager => "NEO4J_URI" \notin env
          /\ entry' = [script |-> "ingest_public_biomarkers", env |-> env,
                       events |-> IF eager THEN <<"error">>
                                  ELSE IF ~lookup_ok THEN <<"lookup", "error">>
                                  ELSE IF ~accepted THEN <<"lookup", "write", "error">>
                                  ELSE <<"lookup", "write", "done">>]
    /\ UNCHANGED <<graphVars, fetchVars, mergeVars, pubmedVars, resolveVars,
                   combineVars, lastOp, pick, batch, client, observed, export, cancer>>

\* link_devices_to_biomarkers.py: a parameter that is not set gets a default
\* (bolt://localhost:7687, neo4j, password; lines 21-23); main writes once per
\* rule, and the store at the address used accepts the write or not.
LinkDevicesMain ==
    /\ \E env \in SUBSET {"NEO4J_URI", "NEO4J_USER", "NEO4J_PASSWORD"},
          rules \in 0..1, accepted \in BOOLEAN :
          entry' = [script |-> "link_devices_to_biomarkers", env |-> env,
                    events |-> IF rules = 0 THEN <<"done">>
                               ELSE IF accepted THEN <<"write", "done">>
                               ELSE <<"write", "error">>]
    /\ UNCHANGED <<graphVars, fetchVars, mergeVars, pubmedVars, resolveVars,
                   combineVars, lastOp, pick, batch, client, observed, export, cancer>>

NextClient == GetDriverTest \/ GetDriverConstruct \/ IngestAllBiomarkers \/ LinkDevicesMain

-----------------------------------------------------------------------------
(* export_weak_biomarkers.py on a store that does not change.  A row of    *)
(* the export is one (Biomarker)-[r]->(x) relationship, named by its type  *)
(* and its two nodes.                                                      *)

\* One pass of the loop of export_weak: fetch_batch runs the statement in a
\* transaction of its own; the statement has no ORDER BY, so the rows come in
\* any order before SKIP and LIMIT cut the page.  An empty page ends the loop.
ExportPage ==
    /\ ~export.done
    /\ LET matched == {<<"BIOMARKER_ASSOCIATED_WITH_DISEASE", ToString(r.b), ToString(r.d)>>
                          : r \in rels}
                      \cup {<<x.type, x.src, x.tgt>> :
                               x \in {y \in srels : y.type = "MEASURED_IN_SPECIMEN"}}
       IN \E result \in order_by(matched, {}, Cardinality(matched)) :
             LET last == IF export.skip + PageSize < Len(result)
                         THEN export.skip + PageSize ELSE Len(result)
                 results == SubSeq(result, export.skip + 1, last)
             IN export' = IF results = <<>> THEN [export EXCEPT !.done = TRUE]
                          ELSE [export EXCEPT !.rows = @ \o results,
                                              !.skip = @ + PageSize]
    /\ UNCHANGED <<graphVars, fetchVars, mergeVars, pubmedVars, resolveVars,
                   combineVars, lastOp, pick, batch, client, entry, observed, cancer>>

-----------------------------------------------------------------------------
(* add_is_cancer_like_to_enriched.py: the flag of the DOID table is merged *)
(* into the enriched table, the first run keeps the table it found as a    *)
(* backup file.                                                            *)

\* A rename whatever is there: the backup file is replaced on every run.
backup_overwritten(backup, enriched) == enriched

\* if not backup_path.exists(): ENRICHED_PATH.rename(backup_path): the backup
\* file after the step, from the backup file and the enriched file before it.
backup_after(backup, enriched) == IF ~backup.exists THEN enriched ELSE backup

\* One completed run of the script.  read_csv needs the enriched file; the
\* merge is validated m:1, so a DOID that the ontology lists twice raises
\* before anything is written.  doid is cast to str (an empty cell is NaN and
\* becomes "nan"; the DOIDs of the tables carry no blanks to strip), the old
\* flag column is dropped, the flag of the ontology row with the same doid is
\* taken, 0 where there is none, and the table is written as integers.
AddIsCancerLike ==
    /\ cancer.runs < MaxRuns
    /\ enrichedCsv.exists
    /\ \A i, j \in DOMAIN ontologyCsv : ontologyCsv[i].doid = ontologyCsv[j].doid => i = j
    /\ LET df_enriched == [i \in DOMAIN enrichedCsv.rows |->
                              [enrichedCsv.rows[i] EXCEPT
                                  !.doid = IF @ = "" THEN "nan" ELSE @]]
           flag(d) == IF \E i \in DOMAIN ontologyCsv : ontologyCsv[i].doid = d
                      THEN (CHOOSE o \in Range(ontologyCsv) : o.doid = d).is_cancer_like
                      ELSE "0"
           df_merged == [i \in DOMAIN df_enriched |->
                            [df_enriched[i] EXCEPT !.is_cancer_like = flag(df_enriched[i].doid)]]
       IN /\ cancer' = [backup |-> backup_after(cancer.backup, enrichedCsv),
                        before |-> IF cancer.runs = 0 THEN enrichedCsv ELSE cancer.before,
                        runs |-> cancer.runs + 1]
          /\ enrichedCsv' = [enrichedCsv EXCEPT !.rows = df_merged]
    /\ lastOp' = "add_is_cancer_like"
    /\ UNCHANGED <<diseasesCsv, ontologyCsv, pairsCsv, edgesOut, graphVars, fetchVars,
                   mergeVars, pubmedVars, combineVars, pick, batch, client, entry,
                   observed, export>>

NextCancer == RunMergeDiseases \/ AddIsCancerLike

-----------------------------------------------------------------------------
(* The store before the importers run: the biomarker table has been loaded *)
(* (nodes carry biomarker_id and name); no disease and no edge yet.        *)

InitGraph ==
    /\ bnodes = {[nid |-> 1, name |-> "b1", biomarker_id |-> "B1", category |-> NULL]}
    /\ dnodes = {}
    /\ rels = {}
    /\ nextId = 2
    /\ lastObs = <<>>
    /\ runs = 0
    /\ devices = {[k_number |-> "K0", name |-> NULL, device_name |-> "dipstick"]}
    /\ mnodes = {}
    /\ mrels = {}
    /\ srels = {}
    /\ call = NoCall
    /\ report = {}
    /\ cancer = [backup |-> NoFile, before |-> NoFile, runs |-> 0]
    /\ export = [skip |-> 0, rows |-> <<>>, done |-> FALSE]
    /\ observed = {}
    /\ entry = [script |-> "none", env |-> {}, events |-> <<>>]
    /\ client = [env |-> {}, calls |-> 0, driver |-> 0, made |-> 0, raised |-> 0, rets |-> {},
                 pc |-> [t \in {1, 2} |-> "idle"]]
    /\ batch = [p \in {1, 2} |-> [pc |-> "start", existing |-> {}]]
    /\ pick = [cols |-> <<>>, id_col |-> <<>>, name_col |-> <<>>]

-----------------------------------------------------------------------------
(* Specifications: one per part of the pipeline; the parts share no state. *)

\* The importers on the graph store.
Init ==
    /\ InitGraph /\ InitFetchIdle /\ InitMerge /\ InitPubmedIdle
    /\ InitResolveIdle /\ InitCombineIdle /\ lastOp = "none"

Next == ImportAuto \/ ImportEdges \/ ImportEnrichedDiseases

Spec == Init /\ [][Next]_vars

\* The auto importer alone, with the record of what its runs were given.
SpecAuto == Init /\ [][ImportAutoObserved]_vars

\* The scripts that write Device and DetectionMethod nodes.
SpecMethods == Init /\ [][NextMethods]_vars

\* The loaders of the import and enrichment scripts, on any small file.
SpecLoad == Init /\ [][NextLoad]_vars

\* pick_id_and_name of build_biomarker_matrix.py, on any small column list.
SpecPick == Init /\ [][PickIdAndName]_vars

\* The processes that open a connection to the store.
SpecClient == Init /\ [][NextClient]_vars

\* The queries of the app on a loaded store: two biomarkers and two diseases,
\* any of three associations with a count, the specimens of the first
\* biomarker (the first also of the first disease), and at most one device.
SearchInit ==
    LET assoc(rid, b, d, cat, cnt) ==
            [rid |-> rid, b |-> b, d |-> d, specimen_type |-> "urine",
             pubmed_query |-> "q1", pubmed_count |-> cnt, is_cancer_like |-> NULL,
             disease_category |-> cat]
        opt(rid, b, d, cat) == {{}} \cup {{assoc(rid, b, d, cat, cnt)} : cnt \in 1..2}
        spec(i) == [type |-> "MEASURED_IN_SPECIMEN", src |-> "1",
                    tgt |-> <<"s1", "s2", "s3", "s4", "s5", "s6", "s7">>[i]]
        device(dv) == IF dv = "none" THEN {}
                      ELSE {[k_number |-> dv, name |-> IF dv = "K1" THEN "lamp" ELSE NULL,
                             device_name |-> IF dv = "K0" THEN "dipstick" ELSE NULL]}
        method(dv) == IF dv = "K0" THEN "Dipstick" ELSE "LAMP"
        stores ==
            {[r |-> r1 \cup r2 \cup r3,
              s |-> {spec(i) : i \in 1..k}
                    \cup (IF k > 0 THEN {[type |-> "DETECTED_IN_SPECIMEN", src |-> "3",
                                          tgt |-> "s1"]} ELSE {})
                    \cup (IF dv = "none" THEN {}
                          ELSE {[type |-> "INTENDED_FOR", src |-> dv, tgt |-> "3"]}),
              dev |-> device(dv),
              m |-> IF dv = "none" THEN {} ELSE {method(dv)},
              mr |-> IF dv = "none" THEN {}
                     ELSE {[type |-> "USES_METHOD", src |-> dv, tgt |-> method(dv)]}] :
                r1 \in opt(5, 1, 3, "renal"), r2 \in opt(6, 1, 4, NULL),
                r3 \in opt(7, 2, 3, "renal"), k \in 0..MaxSpecimens,
                dv \in {"none", "K0", "K1"}}
    IN
    /\ bnodes = {[nid |-> 1, name |-> "a1", biomarker_id |-> "B1", category |-> NULL,
                  aliases |-> {"x2"}],
                 [nid |-> 2, name |-> "A2", biomarker_id |-> "B2", category |-> NULL,
                  aliases |-> {}]}
    /\ dnodes = {[nid |-> 3, name |-> "n1", doid |-> "D1", category |-> "renal",
                  is_cancer_like |-> "0"],
                 [nid |-> 4, name |-> "n2", doid |-> "D2", category |-> NULL,
                  is_cancer_like |-> "0"]}
    /\ \E g \in stores :
          /\ rels = g.r
          /\ srels = g.s
          /\ devices = g.dev
          /\ mnodes = g.m
          /\ mrels = g.mr
    /\ nextId = 8
    /\ lastObs = <<>>
    /\ runs = 0
    /\ call = NoCall
    /\ report = {}
    /\ cancer = [backup |-> NoFile, before |-> NoFile, runs |-> 0]
    /\ export = [skip |-> 0, rows |-> <<>>, done |-> FALSE]
    /\ observed = {}
    /\ entry = [script |-> "none", env |-> {}, events |-> <<>>]
    /\ client = [env |-> {}, calls |-> 0, driver |-> 0, made |-> 0, raised |-> 0, rets |-> {},
                 pc |-> [t \in {1, 2} |-> "idle"]]
    /\ batch = [p \in {1, 2} |-> [pc |-> "start", existing |-> {}]]
    /\ pick = [cols |-> <<>>, id_col |-> <<>>, name_col |-> <<>>]
    /\ InitFetchIdle /\ InitMerge /\ InitPubmedIdle
    /\ InitResolveIdle /\ InitCombineIdle /\ lastOp = "none"

SpecSearch == SearchInit /\ [][NextSearch]_vars

\* The export of the biomarker relationships of a loaded store, here one
\* without specimens and devices.
ExportInit == SearchInit /\ srels = {} /\ devices = {}

SpecExport == ExportInit /\ [][ExportPage]_vars

\* fetch_markerdb_metabolic_edges.py on the edges CSV.
FetchInit ==
    /\ InitGraph /\ InitFetch /\ InitMerge /\ InitPubmedIdle
    /\ InitResolveIdle /\ InitCombineIdle

SpecFetch == FetchInit /\ [][NextFetch]_vars

\* Two concurrent runs of fetch_markerdb_metabolic_edges.py.
SpecBatch == FetchInit /\ [][NextBatch]_vars

\* merge_biomarker_disease_curated.py on its input directory.
MergeInit ==
    /\ InitGraph /\ InitFetchIdle /\ InitMerge /\ InitPubmedIdle
    /\ InitResolveIdle /\ InitCombineIdle /\ lastOp = "none"

SpecMerge == MergeInit /\ [][NextMerge]_vars

\* The disease merge, the edge build and the imports of their tables.
ResolveInit ==
    /\ InitGraph /\ InitFetchIdle /\ InitMerge /\ InitPubmedIdle
    /\ InitResolve /\ InitCombineIdle /\ lastOp = "none"

SpecResolve == ResolveInit /\ [][NextResolve]_vars

\* The disease merge and the runs of the cancer flag script on its table.
SpecCancer == ResolveInit /\ [][NextCancer]_vars

\* An enrichment run and the import of its CSV.
PubmedInit ==
    /\ InitGraph /\ InitFetchIdle /\ InitMerge /\ InitPubmed
    /\ InitResolveIdle /\ InitCombineIdle /\ lastOp = "none"

SpecPubmed == PubmedInit /\ [][NextPubmed]_vars

\* The union of two lists.
CombineInit ==
    /\ InitGraph /\ InitFetchIdle /\ InitMerge /\ InitPubmedIdle
    /\ InitResolveIdle /\ InitCombine /\ lastOp = "none"

SpecCombine == CombineInit /\ [][NextCombine]_vars

-----------------------------------------------------------------------------
(* Definitions the properties use.                                         *)

Position(seq, x) == CHOOSE k \in DOMAIN seq : seq[k] = x

HasEdge(bname, dname) ==
    \E r \in rels, b \in bnodes, d \in dnodes :
        r.b = b.nid /\ r.d = d.nid /\ b.name = bname /\ d.name = dname

\* The trimmed, non-empty items of a cell, as a set.
Items(val) ==
    IF val.isstr
    THEN {Strip(p) : p \in Range(Split(val.chars, ";"))} \ {<<>>}
    ELSE {}

\* The items of a "; "-joined result, in order.
ResultItems(chars) ==
    IF chars = <<>> THEN <<>>
    ELSE LET ps == Split(chars, ";") IN [i \in DOMAIN ps |-> Strip(ps[i])]

MatchingDoids(n) ==
    {ontologyCsv[i].doid : i \in {k \in DOMAIN ontologyCsv :
                                     name_norm(ontologyCsv[k].name) = name_norm(n)}}

Unmatched(p) == \A r \in Range(enrichedCsv.rows) : r.name # p.disease_name

-----------------------------------------------------------------------------
C2_SecondRunChangesNothing ==
    [][/\ (lastOp = "fetch" /\ lastOp' = "fetch") => edgesCsv' = edgesCsv
       /\ (lastOp = "merge" /\ lastOp' = "merge") => master' = master
       /\ \A csv \in SeqsUpTo(AutoCsvRows, MaxBatch) :
             LET g1 == auto_main(Graph, csv)
                 g2 == auto_main(g1, csv)
             IN g2.b = g1.b /\ g2.d = g1.d /\ g2.r = g1.r]_vars

\* C3: when a curated source gives strength "strong" for an edge and a
\* heuristic (not curated) file that arrived later gives another strength for
\* the same edge, the merged master CSV keeps strength "strong" for the edge.
C3_CuratedPrecedence ==
    lastOp = "merge" =>
        \A i, j \in DOMAIN inputDir :
            (/\ inputDir[i].exists /\ inputDir[j].exists
             /\ IsCuratedName(InputFileNames[i]) /\ ~IsCuratedName(InputFileNames[j])
             /\ Position(putOrder, i) < Position(putOrder, j))
            => \A rc \in Range(inputDir[i].rows), rh \in Range(inputDir[j].rows) :
                  (/\ key(rh) = key(rc)
                   /\ rh.strength # "strong"
                   /\ \A r \in Range(inputDir[i].rows) :
                         key(r) = key(rc) => r.strength = "strong")
                  => \E m \in Range(master.rows) :
                        key(m) = key(rc) /\ m.strength = "strong"

\* C4: the count stored on a relationship is the count of the observation
\* imported last for it, never the sum of the counts observed.
C4_LastCountWins ==
    \A r \in rels : r.pubmed_count = lastObs[r.rid].count

C4_Witness ==
    \E r \in rels : lastObs[r.rid].times >= 2 /\ lastObs[r.rid].total > lastObs[r.rid].count

\* C5: the combined cell holds exactly the trimmed, non-empty items of the
\* two cells, each once, in ascending order; the result is the same with the
\* arguments exchanged, and combining the result with either argument again,
\* or a cell with itself, adds nothing.
C5_UnionSortedDedup ==
    lastOp = "combine" =>
        LET res == ResultItems(combined)
        IN /\ Range(res) = Items(strong_val) \cup Items(weak_val)
           /\ \A i, j \in DOMAIN res : i < j => StrLess(res[i], res[j])
           /\ combined = combine_text_lists(weak_val, strong_val)
           /\ combine_text_lists(Str(combined), weak_val) = combined
           /\ combine_text_lists(Str(combined), strong_val) = combined
           /\ Range(ResultItems(combine_text_lists(strong_val, strong_val)))
                 = Items(strong_val)

C5_Witness ==
    /\ lastOp = "combine"
    /\ Items(strong_val) \ Items(weak_val) # {}
    /\ Items(weak_val) \ Items(strong_val) # {}
    /\ \E x \in Items(strong_val), y \in Items(weak_val) : StrLess(y, x)

\* C6: when the lookup for a pair fails, the pair's count is recorded as 0 and
\* a warning is logged; after the import step the edge of every pair recorded
\* with count 0 is in the graph.
C6_ZeroCountEdgeKept ==
    /\ script = "enrich_biomarkers_pubmed" =>
          \A i \in failed \cap DOMAIN outRows :
              outRows[i].pubmed_count = "0" /\ i \in warned
    /\ status = "imported" =>
          \A i \in DOMAIN outRows :
              outRows[i].pubmed_count = "0" =>
                  HasEdge(outRows[i].biomarker_name, outRows[i].disease_name)

\* C7: a count function returns 0 on a failed lookup and never raises to its
\* caller, so a failed lookup never aborts the run.
C7_LookupNeverRaises ==
    /\ raisedAt = {}
    /\ status # "aborted"
    /\ \A i \in failed : i \in DOMAIN outRows => outRows[i].pubmed_count = "0"

\* C8: a local disease whose normalized name matches two or more ontology
\* entries is not merged into any of them: no row of diseases_enriched.csv and
\* no row of biomarker_disease_edges.csv gives it one of the matching DOIDs.
C8_AmbiguousNotMerged ==
    \A i \in DOMAIN diseasesCsv :
        LET n == diseasesCsv[i].name
        IN Cardinality(MatchingDoids(n)) >= 2 =>
              /\ \A r \in Range(enrichedCsv.rows) :
                     r.name = n => r.doid \notin MatchingDoids(n)
              /\ \A e \in Range(edgesOut.rows) :
                     e.disease_name = n => e.doid \notin MatchingDoids(n)

\* C9: a candidate edge whose disease matches no row of the enriched disease
\* table is kept by the edge build, and after the import its edge is in the
\* graph on a Disease node of that name.
C9_UnmatchedCandidateKept ==
    /\ edgesOut.exists =>
          \A i \in DOMAIN pairsCsv :
              Unmatched(pairsCsv[i]) =>
                  \E e \in Range(edgesOut.rows) :
                      /\ e.biomarker_id = pairsCsv[i].biomarker_id
                      /\ e.disease_name = pairsCsv[i].disease_name
    /\ lastOp = "import_edges" =>
          \A i \in DOMAIN pairsCsv :
              Unmatched(pairsCsv[i]) =>
                  HasEdge(pairsCsv[i].biomarker_name, pairsCsv[i].disease_name)

\* C10: two source rows with the same DOID and different disease names denote
\* one Disease node.
C10_DoidIsDiseaseIdentity ==
    \A d1, d2 \in dnodes :
        (d1.doid = d2.doid /\ d1.doid \notin {NULL, ""}) => d1 = d2

\* C11: two disease names that differ only in letter case, in leading or
\* trailing whitespace, or in the length of runs of internal whitespace join:
\* the disease merge gives the local name the DOID of the ontology entry, and
\* the edge build gives a pair the DOID of the enriched row of that name.
C11_Key(n) ==
    LET s == Strip(Lower(NameChars(n)))
        kept == {i \in DOMAIN s : ~(s[i] = " " /\ i > 1 /\ s[i - 1] = " ")}
        RECURSIVE Pick(_)
        Pick(i) == IF i > Len(s) THEN <<>>
                   ELSE (IF i \in kept THEN <<s[i]>> ELSE <<>>) \o Pick(i + 1)
    IN Pick(1)

C11_NamesJoinOnNormalizedKey ==
    /\ enrichedCsv.exists =>
          \A i \in DOMAIN diseasesCsv, j \in DOMAIN ontologyCsv :
              C11_Key(diseasesCsv[i].name) = C11_Key(ontologyCsv[j].name) =>
                  \E r \in Range(enrichedCsv.rows) :
                      r.name = diseasesCsv[i].name /\ r.doid = ontologyCsv[j].doid
    /\ edgesOut.exists =>
          \A i \in DOMAIN pairsCsv, r \in Range(enrichedCsv.rows) :
              (C11_Key(pairsCsv[i].disease_name) = C11_Key(r.name) /\ r.doid # "") =>
                  \E e \in Range(edgesOut.rows) :
                      /\ e.biomarker_id = pairsCsv[i].biomarker_id
                      /\ e.disease_name = pairsCsv[i].disease_name
                      /\ e.doid = r.doid

\* C12: a pipeline step never deletes: every Device node, DetectionMethod
\* node and relationship of the store before a step is in the store after it.
C12_NothingDeleted ==
    [][/\ mnodes \subseteq mnodes'
       /\ mrels \subseteq mrels'
       /\ {d.k_number : d \in devices} \subseteq {d.k_number : d \in devices'}
       /\ {b.nid : b \in bnodes} \subseteq {b.nid : b \in bnodes'}
       /\ {d.nid : d \in dnodes} \subseteq {d.nid : d \in dnodes'}
       /\ {r.rid : r \in rels} \subseteq {r.rid : r \in rels'}]_vars

\* C13: search_by_biomarker and search_by_disease return the rows by count
\* descending with ties by name ascending, and two calls with the same term
\* and limit on the same store return the same rows in the same order.
C13_SearchRankingDeterministic ==
    [][call'.fn \in {"search_by_biomarker", "search_by_disease"} =>
          /\ LET chars(n) == IF n = NULL THEN <<>> ELSE NameChars(n)
                 before(x, y) ==
                     \/ desc(x.pubmed_count, y.pubmed_count)
                     \/ /\ x.pubmed_count = y.pubmed_count
                        /\ \/ StrLess(chars(x.biomarker), chars(y.biomarker))
                           \/ /\ x.biomarker = y.biomarker
                              /\ StrLess(chars(x.disease), chars(y.disease))
             IN \A i, j \in DOMAIN call'.rows :
                    i < j => ~before(call'.rows[j], call'.rows[i])
          /\ (call.fn = call'.fn /\ call.q = call'.q /\ call.limit = call'.limit)
                 => call'.rows = call.rows]_vars

\* C14: the Tab 1 query filters before it truncates: its answer is the first
\* rows, up to its limit, of the ranked list of the rows that pass the minimum
\* count and the category filter, min(limit, passing rows) in number.
C14_FilterBeforeLimit ==
    call.fn = "tab1" =>
        LET passing == {tab1_row(x) : x \in {y \in Paths :
                           /\ name_contains(y[1].name, call.q) \/ name_contains(y[3].name, call.q)
                           /\ y[2].pubmed_count >= call.min_pubmed
                           /\ call.category = "(All)" \/ y[2].disease_category = call.category}}
            shown == Range(call.rows)
        IN /\ Len(call.rows) = (IF call.limit < Cardinality(passing)
                                 THEN call.limit ELSE Cardinality(passing))
           /\ Cardinality(shown) = Len(call.rows)
           /\ shown \subseteq passing
           /\ \A x \in passing \ shown, y \in shown : ~tab1_before(x, y)
           /\ \A i, j \in DOMAIN call.rows : i < j => tab1_before(call.rows[i], call.rows[j])

\* A row that matches the term and fails the category filter ranks before a
\* shown row, and more rows pass than the limit allows.
C14_Witness ==
    /\ call.fn = "tab1"
    /\ call.category # "(All)"
    /\ Len(call.rows) = call.limit
    /\ \E x \in Paths :
          /\ name_contains(x[1].name, call.q) \/ name_contains(x[3].name, call.q)
          /\ x[2].disease_category # call.category
          /\ \E i \in DOMAIN call.rows : tab1_before(tab1_row(x), call.rows[i])

\* C15: what the caller gets for an empty answer tells "no match for the
\* term" from "matches found, all excluded by the filters": an empty Tab 1
\* answer whose term matches edges does not carry the signal of an empty
\* answer whose term matched nothing.
C15_EmptySignalsDiffer ==
    [][LET matches(c) == \E x \in Paths : \/ name_contains(x[1].name, c.q)
                                          \/ name_contains(x[3].name, c.q)
           signal(c) == <<c.rows, c.warning>>
       IN (/\ call.fn = "tab1" /\ call.rows = <<>> /\ ~matches(call)
           /\ call'.fn = "tab1" /\ call'.rows = <<>> /\ matches(call'))
          => signal(call') # signal(call)]_vars

\* C16: search_by_biomarker finds every biomarker whose name or one of whose
\* aliases contains the term, case-insensitively (in an answer the limit did
\* not cut).
C16_AliasesMatch ==
    (call.fn = "search_by_biomarker" /\ Len(call.rows) < call.limit) =>
        \A b \in bnodes :
            (\E n \in {b.name} \cup b.aliases :
                 Contains(Lower(NameChars(n)), Lower(call.q)))
            => \E i \in DOMAIN call.rows : call.rows[i].biomarker = b.name

\* C17: the number of nodes get_path_graph_data returns is bounded by its
\* cap alone: at most the six nodes one row can name for each of the max_pairs
\* pairs, whatever is attached to them.
C17_NodeCountBoundedByCap ==
    call.fn = "get_path_graph_data" => Len(call.nodes) <= 6 * call.limit

\* C18: two consecutive calls of get_path_graph_data with the same term and
\* cap on the same store return the same pairs, nodes and edges.
C18_SamePairsOnRepeat ==
    [][(/\ call.fn = "get_path_graph_data" /\ call'.fn = "get_path_graph_data"
        /\ call'.q = call.q /\ call'.limit = call.limit)
       => /\ call'.pairs = call.pairs
          /\ Range(call'.nodes) = Range(call.nodes)
          /\ Range(call'.edges) = Range(call.edges)]_vars

C20_DroppedRowsReported ==
    \A r \in report :
        LET counted == {m \in r.output : m.text \in {"Skipped", "Dropped"}}
            perRow == {m \in r.output : m.text = "Skipping row"}
            reported == IF counted # {} THEN (CHOOSE m \in counted : TRUE).n
                        ELSE Cardinality(perRow)
        IN Len(r.csv) = r.kept + reported

\* C21 (as stated): the id column is the first column whose lower-cased name
\* ends in "id" (or is "id"), else the first column; the name column is the
\* first column whose lower-cased name contains "name", "label" or "desc", else
\* the second column (the first when there is one column).
C21_IdIsFirstEndingInId ==
    pick.cols # <<>> =>
        LET cols == pick.cols
            ends_in_id(c) ==
                Len(c) >= 2 /\ SubSeq(Lower(c), Len(c) - 1, Len(c)) = <<"i", "d">>
            named(c) == \/ Contains(Lower(c), <<"n", "a", "m", "e">>)
                        \/ Contains(Lower(c), <<"l", "a", "b", "e", "l">>)
                        \/ Contains(Lower(c), <<"d", "e", "s", "c">>)
        IN /\ \/ \E i \in DOMAIN cols :
                    /\ ends_in_id(cols[i]) /\ pick.id_col = cols[i]
                    /\ \A j \in 1..(i - 1) : ~ends_in_id(cols[j])
              \/ (\A i \in DOMAIN cols : ~ends_in_id(cols[i])) /\ pick.id_col = cols[1]
           /\ \/ \E i \in DOMAIN cols :
                    /\ named(cols[i]) /\ pick.name_col = cols[i]
                    /\ \A j \in 1..(i - 1) : ~named(cols[j])
              \/ /\ \A i \in DOMAIN cols : ~named(cols[i])
                 /\ pick.name_col = cols[IF Len(cols) > 1 THEN 2 ELSE 1]

\* C21 (amended): the id column is the first column whose lower-cased name
\* ends in "_id" or is "id", else the first column; the name column is the
\* first column whose lower-cased name contains "name", "label" or "desc", else
\* the second column (the first when there is one column).
C21_IdIsFirstEndingInUnderscoreId ==
    pick.cols # <<>> =>
        LET cols == pick.cols
            is_id(c) ==
                \/ Lower(c) = <<"i", "d">>
                \/ Len(c) >= 3 /\ SubSeq(Lower(c), Len(c) - 2, Len(c)) = <<"_", "i", "d">>
            named(c) == \/ Contains(Lower(c), <<"n", "a", "m", "e">>)
                        \/ Contains(Lower(c), <<"l", "a", "b", "e", "l">>)
                        \/ Contains(Lower(c), <<"d", "e", "s", "c">>)
        IN /\ \/ \E i \in DOMAIN cols :
                    /\ is_id(cols[i]) /\ pick.id_col = cols[i]
                    /\ \A j \in 1..(i - 1) : ~is_id(cols[j])
              \/ (\A i \in DOMAIN cols : ~is_id(cols[i])) /\ pick.id_col = cols[1]
           /\ \/ \E i \in DOMAIN cols :
                    /\ named(cols[i]) /\ pick.name_col = cols[i]
                    /\ \A j \in 1..(i - 1) : ~named(cols[j])
              \/ /\ \A i \in DOMAIN cols : ~named(cols[i])
                 /\ pick.name_col = cols[IF Len(cols) > 1 THEN 2 ELSE 1]

\* A table whose id and name columns are found by their names, neither in
\* first place, and with an earlier column that only ends in "id".
C21_Witness ==
    /\ pick.cols = <<<<"p", "i", "d">>, <<"N", "a", "m", "e">>, <<"K", "_", "I", "D">>>>
    /\ pick.id_col = <<"K", "_", "I", "D">>
    /\ pick.name_col = <<"N", "a", "m", "e">>

\* C22: when two batches that touch the same edge key have run concurrently,
\* the edges CSV is the one a serial execution of the two runs leaves: no row
\* of a key is lost and no key is written twice.
C22_ConcurrentRunsSerializable ==
    (\A p \in DOMAIN batch : batch[p].pc = "done") =>
        edgesCsv = fetch_main(fetch_main(NoFile, markerdb), markerdb)

\* C23: get_driver returns a singleton: over any interleaving of calls within
\* one process at most one driver is constructed, and every call that returns
\* returns that driver.
C23_GetDriverSingleton ==
    /\ client.made <= 1
    /\ Cardinality(client.rets) <= 1

\* C24: a run whose connection parameters (URI, user or password) are not all
\* set stops with an error at startup, before any lookup or store write is
\* attempted: get_driver constructs and returns no driver, and a script does
\* nothing but fail.
C24_MissingConfigFatalAtStartup ==
    /\ (client.calls > 0 /\ Cardinality(client.env) < 3) =>
           client.made = 0 /\ client.rets = {}
    /\ (entry.script # "none" /\ Cardinality(entry.env) < 3) =>
           entry.events = <<"error">>

\* C25: when two rows of equal provenance (here: of one input file, and of no
\* other) give different strength values for the same edge key, the master
\* record of the key carries the strength of the row that is read last.
C25_LastReadWins ==
    lastOp = "merge" =>
        \A i \in DOMAIN inputDir :
            \A n \in DOMAIN inputDir[i].rows :
                LET row == inputDir[i].rows[n]
                    later == {m \in DOMAIN inputDir[i].rows :
                                 m > n /\ key(inputDir[i].rows[m]) = key(row)}
                    elsewhere == \E j \in DOMAIN inputDir :
                                    /\ j # i
                                    /\ \E m \in DOMAIN inputDir[j].rows :
                                          key(inputDir[j].rows[m]) = key(row)
                IN (later = {} /\ ~elsewhere) =>
                       \E m \in DOMAIN master.rows :
                           /\ key(master.rows[m]) = key(row)
                           /\ master.rows[m].strength = row.strength

\* C26: within an enrichment run every PubMed request is followed by the
\* polite delay before the next request is sent, whatever the outcome of the
\* request: no two requests of a run are sent back to back.
C26_DelayAfterEveryRequest ==
    \A i \in 1..(Len(events) - 1) : events[i] = "request" => events[i + 1] = "sleep"

\* C27: every edge in the result of get_path_graph_data has both of its
\* endpoints in the returned node map, also when a matched node has no name
\* property.
C27_EdgeEndpointsAreNodes ==
    call.fn = "get_path_graph_data" =>
        \A k \in DOMAIN call.edges :
            /\ \E i \in DOMAIN call.nodes : call.nodes[i].id = call.edges[k][1]
            /\ \E i \in DOMAIN call.nodes : call.nodes[i].id = call.edges[k][2]

\* C28: after any sequence of runs of the auto importer, the pubmed_count and
\* the pubmed_query stored on an edge come from the same observation: the
\* importer was given the stored count for the stored query.
C28_CountBelongsToQuery ==
    \A r \in rels :
        \A b \in bnodes, d \in dnodes :
            (r.b = b.nid /\ r.d = d.nid) =>
                <<b.name, d.name, r.pubmed_query, r.pubmed_count>> \in observed

\* C29: on a store that does not change during the export, export_weak writes
\* every (Biomarker)-[r]->(x) relationship exactly once to the CSV: across the
\* pages no relationship is missing and none is repeated.
C29_EveryRelationshipOnce ==
    export.done =>
        /\ \A r \in rels :
              \E i \in DOMAIN export.rows :
                  export.rows[i] = <<"BIOMARKER_ASSOCIATED_WITH_DISEASE",
                                     ToString(r.b), ToString(r.d)>>
        /\ \A x \in srels :
              x.type = "MEASURED_IN_SPECIMEN" =>
                  \E i \in DOMAIN export.rows : export.rows[i] = <<x.type, x.src, x.tgt>>
        /\ \A i, j \in DOMAIN export.rows : i # j => export.rows[i] # export.rows[j]

\* C30: the backup file diseases_enriched.csv.bak_before_cancer_flag is never
\* modified once it exists: after any number of completed runs of
\* add_is_cancer_like_to_enriched it holds the enriched table exactly as it
\* was before the first run.
C30_BackupKeepsFirstTable ==
    cancer.runs >= 1 => cancer.backup.exists /\ cancer.backup = cancer.before

\* Two completed runs: the backup is the table the first run found, and the
\* enriched file written by the second run differs from it.
C30_Witness ==
    /\ cancer.runs = 2
    /\ lastOp = "add_is_cancer_like"
    /\ cancer.backup = cancer.before
    /\ cancer.backup.rows # <<>>
    /\ cancer.backup # enrichedCsv

====
